---------------------------- MODULE Spec2Model ----------------------------
(***************************************************************************)
(* The colour-channel codec of src/components/TextEffectGenerator.tsx:     *)
(* encodeNibble, encodeChannel, avoidAnimationSentinels, clamp and         *)
(* encodeTextEffect, with JavaScript's 32-bit bitwise operators and its    *)
(* number-to-hex formatting modelled by what they compute.                 *)
(***************************************************************************)
EXTENDS Integers, Sequences, FiniteSets, TLC

VARIABLES
    baseColor,  \* encodeTextEffect's argument baseColor: [r, g, b]
    effectId,   \* encodeTextEffect's argument effectId
    speed,      \* encodeTextEffect's argument speed
    param,      \* encodeTextEffect's argument param
    encoded,    \* encodeTextEffect's return value, NoResult before the call
    pc,         \* "start" before the call of encodeTextEffect, "done" after it
    unitBase,   \* the byte argument of a single helper call
    unitData,   \* the integer argument of a single helper call
    fn,         \* the helper that was called, "none" before the call ("idle": no call)
    ret,        \* the helper's return value, NoResult before the call
    hexArg,     \* hexToRgb's argument hex, a string
    hexRet,     \* hexToRgb's return value, NoResult before the call
    hexPc,      \* "start" before the call of hexToRgb, "done" after it
    component,  \* which TextEffectGenerator is mounted: 1 (first), 2 (second), 0 (none)
    ui,         \* the mounted component's useState values
    memo,       \* its useMemo caches: for each, the dependencies and the value
    view,       \* what its last render shows: encoded colour and MiniMessage string
    fs,         \* the file system the docs route reads: canonical path -> node
    slug,       \* the slug parameter of the request to GET /api/docs/[...slug]
    response,   \* the route's response, NoResult before the request
    docPc,      \* "start" before the request, "listing" while listDocs runs, "done"
                \* after the response
    listCall,   \* the arguments of the outermost call of listDocs
    stack,      \* the calls of listDocs that have not returned, the innermost first
    seenDocs,   \* listDocs' set seenDocs, shared by all its calls
    visitedDirs, \* listDocs' set visitedDirs, shared by all its calls
    reads,      \* the canonical directories readdir was called on, in order
    listed,     \* what the outermost call of listDocs returned, NoResult before
    editor,     \* one code pane of the ShaderPreview editor: which shader it holds,
                \* its code, status, error and compiled shader
    timers,     \* the timeouts that are pending: what each will do and the time left
    sinceChange, \* the time since the code was last changed, in ticks (not counted
                \* beyond CompileDelay + 1)
    preview,    \* a ShaderPreview and its animation: its state, animationRef, the
                \* animation-frame callbacks that are pending
    clip        \* the copy buttons of the second TextEffectGenerator: its state
                \* copied, the clipboard, the reset timeouts that are pending

vars == <<baseColor, effectId, speed, param, encoded, pc, unitBase, unitData, fn, ret,
          hexArg, hexRet, hexPc, component, ui, memo, view, fs, slug, response, docPc,
          listCall, stack, seenDocs, visitedDirs, reads, listed, editor, timers,
          sinceChange, preview, clip>>

encodeVars == <<baseColor, effectId, speed, param, encoded, pc>>

unitVars == <<unitBase, unitData, fn, ret>>

hexVars == <<hexArg, hexRet, hexPc>>

uiVars == <<component, ui, memo, view>>

docsVars == <<fs, slug, response, docPc>>

listVars == <<listCall, stack, seenDocs, visitedDirs, reads, listed>>

editorVars == <<editor, timers, sinceChange>>

\* The state of the components that are not the first or second TextEffectGenerator.
widgetVars == <<editorVars, preview, clip>>

\* What a call of encodeTextEffect, of a helper, of hexToRgb leaves alone.
notEncodeVars == <<widgetVars, unitVars, hexVars, uiVars, docsVars, listVars>>

notUnitVars == <<widgetVars, encodeVars, hexVars, uiVars, docsVars, listVars>>

notHexVars == <<widgetVars, encodeVars, unitVars, uiVars, docsVars, listVars>>

\* What a TextEffectGenerator component leaves alone.
notUiVars == <<widgetVars, encodeVars, unitVars, hexVars, docsVars, listVars>>

\* What a request to the docs route leaves alone.
notDocsVars == <<widgetVars, encodeVars, unitVars, hexVars, uiVars>>

(***************************************************************************)
(* Bounds of the model.                                                    *)
(***************************************************************************)
\* effectId, speed, param and data range over -MaxArg..MaxArg (and 99).
MaxArg == 9

\* hexToRgb is called on every string of at most MaxHexLen characters of HexChars.
MaxHexLen == 7

\* The shader code typed in the editor has at most MaxCodeLen statements.
MaxCodeLen == 2

\* At most MaxTimers reset timeouts of the copy buttons are pending at a time.
MaxTimers == 3

NoResult == "no result"

\* A colour channel: an 8-bit unsigned integer.
Byte == 0..255

\* The integer arguments tried: negative, zero, in range, just above 7, and
\* the far-out value 99.
ArgRange == (-MaxArg..MaxArg) \cup {99}

\* The values the arguments that are not swept take.
SampleBytes == {64, 254}

SampleArgs == {-5, 99}

\* The characters of hexToRgb's arguments: '#', a digit, a lower-case and an
\* upper-case hex letter, and a letter that is no hex digit.
HexChars == {"#", "0", "a", "F", "g"}

HexStrings == UNION {[1..n -> HexChars] : n \in 0..MaxHexLen}

(***************************************************************************)
(* JavaScript's bitwise operators.  An operand is converted to a signed    *)
(* 32-bit integer (ToInt32, the identity on the integers used here, which  *)
(* all lie within -2^31..2^31-1) and the operator acts bit by bit on the   *)
(* two's complement representation.  x % 2 is the lowest bit of x and      *)
(* x \div 2 (rounding down) is x shifted right by one with its sign kept,  *)
(* so the recursion ends at 0 (all bits 0) or -1 (all bits 1).             *)
(***************************************************************************)
RECURSIVE BitAnd(_, _)
\* a & b
BitAnd(a, b) ==
    IF a = 0 \/ b = 0 THEN 0
    ELSE IF a = -1 THEN b
    ELSE IF b = -1 THEN a
    ELSE (a % 2) * (b % 2) + 2 * BitAnd(a \div 2, b \div 2)

RECURSIVE BitOr(_, _)
\* a | b
BitOr(a, b) ==
    IF a = 0 THEN b
    ELSE IF b = 0 THEN a
    ELSE IF a = -1 \/ b = -1 THEN -1
    ELSE (IF (a % 2) + (b % 2) > 0 THEN 1 ELSE 0) + 2 * BitOr(a \div 2, b \div 2)

RECURSIVE BitNot(_)
\* ~a
BitNot(a) ==
    IF a = 0 THEN -1
    ELSE IF a = -1 THEN 0
    ELSE (1 - (a % 2)) + 2 * BitNot(a \div 2)

RECURSIVE ShiftLeft(_, _)
\* a << n, for results within 32 bits
ShiftLeft(a, n) == IF n = 0 THEN a ELSE ShiftLeft(2 * a, n - 1)

(***************************************************************************)
(* Alpha LSB encoding constants.                                           *)
(***************************************************************************)
LSB_BITS == 4

LOW_MASK == ShiftLeft(1, LSB_BITS) - 1

DATA_MASK == ShiftLeft(1, LSB_BITS - 1) - 1

DATA_MIN == 1

DATA_GAP == 5

(***************************************************************************)
(* The codec.                                                              *)
(***************************************************************************)
\* encodeNibble comparing with > instead of >=: 4 is encoded as the gap value 5.
encodeNibble_gapExclusive(data) ==
    LET encoded0 == BitAnd(data, DATA_MASK) + DATA_MIN
    IN  IF DATA_GAP >= 0 /\ encoded0 > DATA_GAP THEN encoded0 + 1 ELSE encoded0

\* encodeNibble without the step over DATA_GAP.
encodeNibble_noGap(data) == BitAnd(data, DATA_MASK) + DATA_MIN

\* encodeNibble without the DATA_MIN offset: data 0 is encoded as nibble 0.
encodeNibble_noMin(data) ==
    LET encoded0 == BitAnd(data, DATA_MASK)
    IN  IF DATA_GAP >= 0 /\ encoded0 >= DATA_GAP THEN encoded0 + 1 ELSE encoded0

\* encodeNibble without the & DATA_MASK: data above 7 leaves the nibble's range.
encodeNibble_unmasked(data) ==
    LET encoded0 == data + DATA_MIN
    IN  IF DATA_GAP >= 0 /\ encoded0 >= DATA_GAP THEN encoded0 + 1 ELSE encoded0

encodeNibble(data) ==
    LET encoded0 == BitAnd(data, DATA_MASK) + DATA_MIN
    IN  IF DATA_GAP >= 0 /\ encoded0 >= DATA_GAP THEN encoded0 + 1 ELSE encoded0

\* encodeChannel with the ~ of the mask forgotten: it keeps the low bits and
\* clears the high ones.
encodeChannel_maskNotInverted(base, data) ==
    BitOr(BitAnd(base, LOW_MASK), encodeNibble(data))

\* encodeChannel adding the nibble to the base without clearing its low bits.
encodeChannel_added(base, data) == base + encodeNibble(data)

encodeChannel(base, data) ==
    BitOr(BitAnd(base, BitNot(LOW_MASK)), encodeNibble(data))

\* avoidAnimationSentinels with the range test off by one (red > 62).
avoidAnimationSentinels_offByOne(red) ==
    IF red = 254 THEN red - 16
    ELSE IF red > 62 /\ red <= 64 THEN red + 16
    ELSE red

avoidAnimationSentinels(red) ==
    IF red = 254 THEN red - 16
    ELSE IF red >= 62 /\ red <= 64 THEN red + 16
    ELSE red

\* Math.min and Math.max on integers.
MathMin(a, b) == IF a < b THEN a ELSE b

MathMax(a, b) == IF a > b THEN a ELSE b

\* clamp reducing the value by bit mask (wrapping) instead of saturating.
clamp_wrapping(value, min, max) == MathMax(min, BitAnd(value, max))

clamp(value, min, max) == MathMax(min, MathMin(max, value))

(***************************************************************************)
(* Number.prototype.toString(16), String.prototype.padStart and            *)
(* toUpperCase.  A string is a sequence of one-character strings.          *)
(***************************************************************************)
HexDigits == <<"0", "1", "2", "3", "4", "5", "6", "7", "8", "9",
               "a", "b", "c", "d", "e", "f">>

RECURSIVE toString16(_)
\* n.toString(16) for an integer n >= 0: lowercase, no leading zeros.
toString16(n) ==
    IF n < 16 THEN <<HexDigits[n + 1]>>
    ELSE toString16(n \div 16) \o <<HexDigits[(n % 16) + 1]>>

\* padStart that pads nothing: a channel below 16 gets one digit.
padStart_none(s, len, ch) == s

RECURSIVE padStart(_, _, _)
\* s.padStart(len, ch) for a one-character ch.
padStart(s, len, ch) == IF Len(s) >= len THEN s ELSE padStart(<<ch>> \o s, len, ch)

\* c.toUpperCase() for one character of a hex colour string.
UpperChar(c) ==
    CASE c = "a" -> "A" [] c = "b" -> "B" [] c = "c" -> "C"
      [] c = "d" -> "D" [] c = "e" -> "E" [] c = "f" -> "F"
      [] OTHER -> c

\* toUpperCase forgotten: the digits a-f stay in lower case.
toUpperCase_none(s) == s

toUpperCase(s) == [i \in 1..Len(s) |-> UpperChar(s[i])]

\* The hex string encodeTextEffect builds of its three encoded channels: two
\* zero-padded hex digits each after a '#', the whole in upper case.
hexOf(rEnc, gEnc, bEnc) ==
    toUpperCase(<<"#">> \o padStart(toString16(rEnc), 2, "0")
                       \o padStart(toString16(gEnc), 2, "0")
                       \o padStart(toString16(bEnc), 2, "0"))

\* encodeTextEffect clamping speed to 0..7 like param.
encodeTextEffect_speedFromZero(color, id, spd, prm) ==
    LET rEnc == avoidAnimationSentinels(encodeChannel(color.r, BitAnd(id, DATA_MASK)))
        gEnc == encodeChannel(color.g, clamp(spd, 0, DATA_MASK))
        bEnc == encodeChannel(color.b, clamp(prm, 0, DATA_MASK))
    IN  [r |-> rEnc, g |-> gEnc, b |-> bEnc, hex |-> hexOf(rEnc, gEnc, bEnc)]

\* encodeTextEffect returning the base colour's red instead of the encoded red.
encodeTextEffect_baseRed(color, id, spd, prm) ==
    LET rEnc == color.r
        gEnc == encodeChannel(color.g, clamp(spd, 1, DATA_MASK))
        bEnc == encodeChannel(color.b, clamp(prm, 0, DATA_MASK))
    IN  [r |-> rEnc, g |-> gEnc, b |-> bEnc, hex |-> hexOf(rEnc, gEnc, bEnc)]

\* encodeTextEffect clamping effectId to 0..7 like speed and param.
encodeTextEffect_effectClamped(color, id, spd, prm) ==
    LET rEnc == avoidAnimationSentinels(encodeChannel(color.r, clamp(id, 0, DATA_MASK)))
        gEnc == encodeChannel(color.g, clamp(spd, 1, DATA_MASK))
        bEnc == encodeChannel(color.b, clamp(prm, 0, DATA_MASK))
    IN  [r |-> rEnc, g |-> gEnc, b |-> bEnc, hex |-> hexOf(rEnc, gEnc, bEnc)]

encodeTextEffect(color, id, spd, prm) ==
    LET effectClamped == BitAnd(id, DATA_MASK)
        speedClamped == clamp(spd, 1, DATA_MASK)
        paramClamped == clamp(prm, 0, DATA_MASK)
        rEnc == avoidAnimationSentinels(encodeChannel(color.r, effectClamped))
        gEnc == encodeChannel(color.g, speedClamped)
        bEnc == encodeChannel(color.b, paramClamped)
    IN  [r |-> rEnc, g |-> gEnc, b |-> bEnc, hex |-> hexOf(rEnc, gEnc, bEnc)]

(***************************************************************************)
(* hexToRgb.  The regular expression /^#?([a-f\d]{2})([a-f\d]{2})([a-f\d]{2})$/i *)
(* matches a string that is, after at most one leading '#', exactly six    *)
(* characters each a digit or a letter a-f in either case ('#' is no such  *)
(* character, so the optional '#' must take a leading '#'; $ without the   *)
(* m flag matches at the end of the input only).                           *)
(***************************************************************************)
Digits == {"0", "1", "2", "3", "4", "5", "6", "7", "8", "9"}

LowerHexLetters == {"a", "b", "c", "d", "e", "f"}

UpperHexLetters == {"A", "B", "C", "D", "E", "F"}

\* [a-f\d] under the i flag.
IsHexChar(c) == c \in Digits \cup LowerHexLetters \cup UpperHexLetters

\* The value parseInt gives one hex digit, in either case.
HexCharValue(c) ==
    CASE c = "0" -> 0 [] c = "1" -> 1 [] c = "2" -> 2 [] c = "3" -> 3
      [] c = "4" -> 4 [] c = "5" -> 5 [] c = "6" -> 6 [] c = "7" -> 7
      [] c = "8" -> 8 [] c = "9" -> 9
      [] c \in {"a", "A"} -> 10 [] c \in {"b", "B"} -> 11
      [] c \in {"c", "C"} -> 12 [] c \in {"d", "D"} -> 13
      [] c \in {"e", "E"} -> 14 [] c \in {"f", "F"} -> 15

RECURSIVE parseInt16(_)
\* parseInt(s, 16) for a non-empty string s of hex digits.
parseInt16(s) ==
    IF Len(s) = 1 THEN HexCharValue(s[1])
    ELSE 16 * parseInt16(SubSeq(s, 1, Len(s) - 1)) + HexCharValue(s[Len(s)])

NoMatch == <<>>

\* regex.exec(hex): the three captured groups, or NoMatch (null).
\* The regular expression without the i flag: upper-case letters do not match.
hexRegexExec_caseSensitive(hex) ==
    LET body == IF Len(hex) > 0 /\ hex[1] = "#" THEN Tail(hex) ELSE hex
    IN  IF Len(body) = 6 /\ \A i \in 1..6 : body[i] \in Digits \cup LowerHexLetters
        THEN <<SubSeq(body, 1, 2), SubSeq(body, 3, 4), SubSeq(body, 5, 6)>>
        ELSE NoMatch

\* The regular expression without the closing $: characters may follow the six
\* digits.
hexRegexExec_openEnd(hex) ==
    LET body == IF Len(hex) > 0 /\ hex[1] = "#" THEN Tail(hex) ELSE hex
    IN  IF Len(body) >= 6 /\ \A i \in 1..6 : IsHexChar(body[i])
        THEN <<SubSeq(body, 1, 2), SubSeq(body, 3, 4), SubSeq(body, 5, 6)>>
        ELSE NoMatch

hexRegexExec(hex) ==
    LET body == IF Len(hex) > 0 /\ hex[1] = "#" THEN Tail(hex) ELSE hex
    IN  IF Len(body) = 6 /\ \A i \in 1..6 : IsHexChar(body[i])
        THEN <<SubSeq(body, 1, 2), SubSeq(body, 3, 4), SubSeq(body, 5, 6)>>
        ELSE NoMatch

hexToRgb(hex) ==
    LET result == hexRegexExec(hex)
    IN  IF result # NoMatch
        THEN [r |-> parseInt16(result[1]),
              g |-> parseInt16(result[2]),
              b |-> parseInt16(result[3])]
        ELSE [r |-> 255, g |-> 255, b |-> 255]

(***************************************************************************)
(* The second TextEffectGenerator's copy of the codec (its own constants   *)
(* and functions, over the same JavaScript operators and library calls).   *)
(***************************************************************************)
LSB_BITS2 == 4

LOW_MASK2 == ShiftLeft(1, LSB_BITS2) - 1

DATA_MASK2 == ShiftLeft(1, LSB_BITS2 - 1) - 1

DATA_MIN2 == 1

DATA_GAP2 == 5

encodeNibble2(data) ==
    LET encoded0 == BitAnd(data, DATA_MASK2) + DATA_MIN2
    IN  IF DATA_GAP2 >= 0 /\ encoded0 >= DATA_GAP2 THEN encoded0 + 1 ELSE encoded0

encodeChannel2(base, data) ==
    BitOr(BitAnd(base, BitNot(LOW_MASK2)), encodeNibble2(data))

avoidAnimationSentinels2(red) ==
    IF red = 254 THEN red - 16
    ELSE IF red >= 62 /\ red <= 64 THEN red + 16
    ELSE red

\* The value as it is, not clamped.
clamp2_unclamped(value, min, max) == value

clamp2(value, min, max) == MathMax(min, MathMin(max, value))

encodeTextEffect2(color, id, spd, prm) ==
    LET effectClamped == BitAnd(id, DATA_MASK2)
        speedClamped == clamp2(spd, 1, DATA_MASK2)
        paramClamped == clamp2(prm, 0, DATA_MASK2)
        rEnc == avoidAnimationSentinels2(encodeChannel2(color.r, effectClamped))
        gEnc == encodeChannel2(color.g, speedClamped)
        bEnc == encodeChannel2(color.b, paramClamped)
    IN  [r |-> rEnc, g |-> gEnc, b |-> bEnc, hex |-> hexOf(rEnc, gEnc, bEnc)]

hexToRgb2(hex) ==
    LET result == hexRegexExec(hex)
    IN  IF result # NoMatch
        THEN [r |-> parseInt16(result[1]),
              g |-> parseInt16(result[2]),
              b |-> parseInt16(result[3])]
        ELSE [r |-> 255, g |-> 255, b |-> 255]

(***************************************************************************)
(* Spec: one call of encodeTextEffect.  The arguments are drawn so that    *)
(* each channel is swept over every byte together with every value of the  *)
(* argument encoded into it, the other arguments taking sample values.     *)
(***************************************************************************)
RedSweep ==
    /\ baseColor \in [r : Byte, g : SampleBytes, b : SampleBytes]
    /\ effectId \in ArgRange
    /\ speed \in SampleArgs
    /\ param \in SampleArgs

GreenSweep ==
    /\ baseColor \in [r : SampleBytes, g : Byte, b : SampleBytes]
    /\ effectId \in SampleArgs
    /\ speed \in ArgRange
    /\ param \in SampleArgs

BlueSweep ==
    /\ baseColor \in [r : SampleBytes, g : SampleBytes, b : Byte]
    /\ effectId \in SampleArgs
    /\ speed \in SampleArgs
    /\ param \in ArgRange

UnitIdle ==
    /\ unitBase = 0
    /\ unitData = 0
    /\ fn = "idle"
    /\ ret = NoResult

EncodeIdle ==
    /\ baseColor = [r |-> 255, g |-> 255, b |-> 255]
    /\ effectId = 0
    /\ speed = 3
    /\ param = 3
    /\ encoded = NoResult
    /\ pc = "idle"

HexIdle ==
    /\ hexArg = <<>>
    /\ hexRet = NoResult
    /\ hexPc = "idle"

\* No component is mounted.
UiIdle ==
    /\ component = 0
    /\ ui = <<>>
    /\ memo = <<>>
    /\ view = <<>>

\* No request is made to the docs route.
DocsIdle ==
    /\ fs = <<>>
    /\ slug = <<>>
    /\ response = NoResult
    /\ docPc = "idle"

\* listDocs is not running.
ListIdle ==
    /\ listCall = <<>>
    /\ stack = <<>>
    /\ seenDocs = {}
    /\ visitedDirs = {}
    /\ reads = <<>>
    /\ listed = NoResult

\* No ShaderPreview editor is mounted.
EditorIdle ==
    /\ editor = [kind |-> "none"]
    /\ timers = {}
    /\ sinceChange = 0

\* No ShaderPreview is mounted.
PreviewIdle == preview = [mounted |-> FALSE]

\* The copy buttons are not there.
ClipIdle == clip = [mounted |-> FALSE]

\* None of the other components is mounted.
WidgetsIdle == EditorIdle /\ PreviewIdle /\ ClipIdle

\* The arguments the generator component starts with: white, effect 0, speed 3,
\* param 3.
DefaultInputs ==
    /\ baseColor = [r |-> 255, g |-> 255, b |-> 255]
    /\ effectId = 0
    /\ speed = 3
    /\ param = 3

Init ==
    /\ \/ RedSweep
       \/ GreenSweep
       \/ BlueSweep
       \/ DefaultInputs
    /\ encoded = NoResult
    /\ pc = "start"
    /\ UnitIdle
    /\ HexIdle
    /\ UiIdle
    /\ DocsIdle
    /\ ListIdle
    /\ WidgetsIdle

CallEncodeTextEffect ==
    /\ pc = "start"
    /\ encoded' = encodeTextEffect(baseColor, effectId, speed, param)
    /\ pc' = "done"
    /\ UNCHANGED <<baseColor, effectId, speed, param>>
    /\ UNCHANGED notEncodeVars

Next == CallEncodeTextEffect

Spec == Init /\ [][Next]_vars

(***************************************************************************)
(* SpecUnit: one call of one helper of the codec, on a byte and an integer *)
(* drawn from every byte and every argument value.                         *)
(***************************************************************************)
InitUnit ==
    /\ unitBase \in Byte
    /\ unitData \in ArgRange
    /\ fn = "none"
    /\ ret = NoResult
    /\ EncodeIdle
    /\ HexIdle
    /\ UiIdle
    /\ DocsIdle
    /\ ListIdle
    /\ WidgetsIdle

CallEncodeNibble ==
    /\ fn = "none"
    /\ fn' = "encodeNibble"
    /\ ret' = encodeNibble(unitData)
    /\ UNCHANGED <<unitBase, unitData>>
    /\ UNCHANGED notUnitVars

CallEncodeChannel ==
    /\ fn = "none"
    /\ fn' = "encodeChannel"
    /\ ret' = encodeChannel(unitBase, unitData)
    /\ UNCHANGED <<unitBase, unitData>>
    /\ UNCHANGED notUnitVars

CallAvoidAnimationSentinels ==
    /\ fn = "none"
    /\ fn' = "avoidAnimationSentinels"
    /\ ret' = avoidAnimationSentinels(unitBase)
    /\ UNCHANGED <<unitBase, unitData>>
    /\ UNCHANGED notUnitVars

NextUnit ==
    \/ CallEncodeNibble
    \/ CallEncodeChannel
    \/ CallAvoidAnimationSentinels

SpecUnit == InitUnit /\ [][NextUnit]_vars

(***************************************************************************)
(* SpecHex: one call of hexToRgb on a string.                              *)
(***************************************************************************)
InitHex ==
    /\ hexArg \in HexStrings
    /\ hexRet = NoResult
    /\ hexPc = "start"
    /\ EncodeIdle
    /\ UnitIdle
    /\ UiIdle
    /\ DocsIdle
    /\ ListIdle
    /\ WidgetsIdle

CallHexToRgb ==
    /\ hexPc = "start"
    /\ hexRet' = hexToRgb(hexArg)
    /\ hexPc' = "done"
    /\ UNCHANGED hexArg
    /\ UNCHANGED notHexVars

NextHex == CallHexToRgb

SpecHex == InitHex /\ [][NextHex]_vars

(***************************************************************************)
(* SpecCodec: one call of any function of the codec: encodeTextEffect, a   *)
(* helper, or hexToRgb, on the arguments of Spec, SpecUnit and SpecHex.    *)
(***************************************************************************)
InitCodec == Init \/ InitUnit \/ InitHex

NextCodec ==
    \/ CallEncodeTextEffect
    \/ CallEncodeNibble
    \/ CallEncodeChannel
    \/ CallAvoidAnimationSentinels
    \/ CallHexToRgb

SpecCodec == InitCodec /\ [][NextCodec]_vars

(***************************************************************************)
(* The two TextEffectGenerator components.  A component is its useState    *)
(* values (ui), its useMemo caches (memo) and what its last render shows   *)
(* (view).  An event handler sets state and React renders the component    *)
(* again: one action is the handler together with that render.             *)
(***************************************************************************)
\* The ids of EFFECTS (first component) and of PRESET_EFFECTS (second).
EffectIds == <<0, 1, 2, 3, 4, 5>>

\* String(n) for an integer n >= 0: the value attribute of an option or a slider.
RECURSIVE numberToString(_)
numberToString(n) ==
    IF n < 10 THEN <<HexDigits[n + 1]>>
    ELSE numberToString(n \div 10) \o <<HexDigits[(n % 10) + 1]>>

NaN == [nan |-> TRUE, val |-> 0]

RECURSIVE digitsValue(_, _, _)
\* The value of the longest run of decimal digits of s from position i on, acc
\* being the value of the digits before i.
digitsValue(s, i, acc) ==
    IF i > Len(s) \/ s[i] \notin Digits THEN acc
    ELSE digitsValue(s, i + 1, 10 * acc + HexCharValue(s[i]))

\* parseInt(s) for a string without white space and without a 0x prefix: an
\* optional sign, then the longest run of digits; NaN when there is no digit.
parseInt(s) ==
    LET signed == Len(s) > 0 /\ s[1] \in {"-", "+"}
        first == IF signed THEN 2 ELSE 1
        magnitude == digitsValue(s, first, 0)
    IN  IF first > Len(s) \/ s[first] \notin Digits THEN NaN
        ELSE [nan |-> FALSE,
              val |-> IF signed /\ s[1] = "-" THEN 0 - magnitude ELSE magnitude]

\* x || 0 for a number x: 0 when x is NaN or 0.
OrZero(x) == IF x.nan \/ x.val = 0 THEN 0 ELSE x.val

\* What the user can enter.  The sliders and the select deliver the string of one
\* of their values; the text fields deliver any text.
SpeedChoices == {1, 3, 7}

ParamChoices == {0, 3, 7}

BaseColorTexts ==
    {<<"#", "F", "F", "F", "F", "F", "F">>,
     <<"#", "f", "f", "f", "f", "f", "f">>,
     <<"#", "3", "e", "4", "0", "f", "e">>,
     <<"b", "a", "d">>}

SampleTexts ==
    {<<"H", "e", "l", "l", "o", " ", "W", "o", "r", "l", "d", "!">>,
     <<"H", "i">>,
     <<>>}

CustomIdTexts ==
    {<<>>, <<"7">>, <<"9">>, <<"-", "1">>, <<"x">>, <<"6", "x">>, <<"1", "2", "3">>}

\* useMemo: the cached entry when the dependencies are those of the last render
\* (compared one by one with Object.is), the recomputed value otherwise.
useMemo(prev, deps, value) ==
    IF prev.deps = deps THEN prev ELSE [deps |-> deps, value |-> value]

\* The caches before the first render.
NoMemo ==
    [baseColor |-> [deps |-> [mounted |-> FALSE],
                    value |-> [ref |-> 1, r |-> 0, g |-> 0, b |-> 0]],
     encoded |-> [deps |-> [mounted |-> FALSE], value |-> <<>>]]

\* The references of the base colour objects the caches hold.
HeldRefs(m) ==
    {m.baseColor.value.ref}
        \cup (IF "baseColor" \in DOMAIN m.encoded.deps
              THEN {m.encoded.deps.baseColor} ELSE {})

\* A new object: its reference is that of no object still held.
FreshRef(m) == CHOOSE n \in 0..2 : n \notin HeldRefs(m) /\
                                     \A k \in 0..2 : k \notin HeldRefs(m) => n <= k

\* hexToRgb's result as a new object.
NewColor(m, rgb) == [ref |-> FreshRef(m), r |-> rgb.r, g |-> rgb.g, b |-> rgb.b]

\* The second component's dependency list with speed left out.
encodedColorDeps_withoutSpeed(u, color) ==
    [baseColor |-> color.ref, effectId |-> u.effectId, param |-> u.param]

\* [sampleText, baseColor, effectId, speed, param] of the first component.
encodedColorsDeps(u, color) ==
    [sampleText |-> u.sampleText, baseColor |-> color.ref, effectId |-> u.effectId,
     speed |-> u.speed, param |-> u.param]

\* [baseColor, effectId, speed, param] of the second component.
encodedColorDeps(u, color) ==
    [baseColor |-> color.ref, effectId |-> u.effectId,
     speed |-> u.speed, param |-> u.param]

RECURSIVE miniMessageOfColors(_)
\* encodedColors.map((c) => `<${c.hex}>${c.char}`).join('')
miniMessageOfColors(colors) ==
    IF colors = <<>> THEN <<>>
    ELSE <<"<">> \o Head(colors).hex \o <<">", Head(colors).char>>
             \o miniMessageOfColors(Tail(colors))

\* const baseColor = useMemo(() => hexToRgb(baseColorHex), [baseColorHex]) of
\* component c with state u over the caches m.
baseColorMemo(c, u, m) ==
    useMemo(m.baseColor, [baseColorHex |-> u.baseColorHex],
            NewColor(m, IF c = 1 THEN hexToRgb(u.baseColorHex)
                        ELSE hexToRgb2(u.baseColorHex)))

\* The first component's encodedColors: one entry for each character of the sample.
encodedColorsMemo(u, m, color) ==
    useMemo(m.encoded, encodedColorsDeps(u, color),
            [i \in 1..Len(u.sampleText) |->
                LET e == encodeTextEffect(color, u.effectId, u.speed, u.param)
                IN  [char |-> u.sampleText[i], r |-> e.r, g |-> e.g,
                     b |-> e.b, hex |-> e.hex, index |-> i - 1]])

\* The second component's encodedColor.
encodedColorMemo(u, m, color) ==
    useMemo(m.encoded, encodedColorDeps(u, color),
            encodeTextEffect2(color, u.effectId, u.speed, u.param))

encodedMemo(c, u, m, color) ==
    IF c = 1 THEN encodedColorsMemo(u, m, color) ELSE encodedColorMemo(u, m, color)

\* What the first component shows: firstEncoded = encodedColors[0] ||
\* encodeTextEffect(baseColor, effectId, speed, param), and the MiniMessage string.
View1(u, color, encodedColors) ==
    LET firstEncoded ==
            IF Len(encodedColors) > 0 THEN encodedColors[1]
            ELSE encodeTextEffect(color, u.effectId, u.speed, u.param)
    IN  [hex |-> firstEncoded.hex, r |-> firstEncoded.r,
         g |-> firstEncoded.g, b |-> firstEncoded.b,
         miniMessage |-> miniMessageOfColors(encodedColors)]

\* What the second component shows: encodedColor and `<${encodedColor.hex}>${sampleText}`.
View2(u, encodedColor) ==
    [hex |-> encodedColor.hex, r |-> encodedColor.r,
     g |-> encodedColor.g, b |-> encodedColor.b,
     miniMessage |-> <<"<">> \o encodedColor.hex \o <<">">> \o u.sampleText]

\* One render of component c with state u over the caches m leaves the caches m2
\* and shows v.
Render(c, u, m, m2, v) ==
    \E color \in {baseColorMemo(c, u, m)} :
    \E enc \in {encodedMemo(c, u, m, color.value)} :
        /\ m2 = [baseColor |-> color, encoded |-> enc]
        /\ v = IF c = 1 THEN View1(u, color.value, enc.value)
               ELSE View2(u, enc.value)

\* The useState defaults of the first and of the second component.
InitialState1 ==
    [effectId |-> 0, speed |-> 3, param |-> 3,
     baseColorHex |-> <<"#", "F", "F", "F", "F", "F", "F">>,
     sampleText |-> <<"H", "e", "l", "l", "o", " ", "W", "o", "r", "l", "d", "!">>]

InitialState2 ==
    [useCustomId |-> FALSE, effectId |-> 0, speed |-> 3, param |-> 3,
     baseColorHex |-> <<"#", "F", "F", "F", "F", "F", "F">>,
     sampleText |-> <<"H", "e", "l", "l", "o", " ", "W", "o", "r", "l", "d", "!">>,
     copied |-> "null"]

\* A component is mounted: its state is the defaults and it has rendered once.
InitUi ==
    /\ component \in {1, 2}
    /\ ui = IF component = 1 THEN InitialState1 ELSE InitialState2
    /\ Render(component, ui, NoMemo, memo, view)
    /\ EncodeIdle
    /\ UnitIdle
    /\ HexIdle
    /\ DocsIdle
    /\ ListIdle
    /\ WidgetsIdle

\* The state becomes nextState and the component renders again.
SetStateAndRender(nextState) ==
    \E u \in {nextState} :
        /\ ui' = u
        /\ Render(component, u, memo, memo', view')
        /\ UNCHANGED component
        /\ UNCHANGED notUiVars

\* First component, effect select: onChange={(e) => setEffectId(parseInt(e.target.value))}
SelectEffect ==
    /\ component = 1
    /\ \E i \in 1..Len(EffectIds) :
          SetStateAndRender(
              [ui EXCEPT !.effectId = parseInt(numberToString(EffectIds[i])).val])

\* Second component, checkbox: onChange={(e) => setUseCustomId(e.target.checked)}
ToggleCustomId ==
    /\ component = 2
    /\ \E checked \in BOOLEAN :
          SetStateAndRender([ui EXCEPT !.useCustomId = checked])

\* Second component, custom id field (shown when useCustomId):
\* onChange={(e) => setEffectId(clamp(parseInt(e.target.value) || 0, 0, 7))}
TypeCustomId ==
    /\ component = 2
    /\ ui.useCustomId
    /\ \E text \in CustomIdTexts :
          SetStateAndRender(
              [ui EXCEPT !.effectId = clamp2(OrZero(parseInt(text)), 0, 7)])

\* Second component, preset button (shown unless useCustomId):
\* onClick={() => setEffectId(e.id)}
ClickPreset ==
    /\ component = 2
    /\ ~ui.useCustomId
    /\ \E i \in 1..Len(EffectIds) :
          SetStateAndRender([ui EXCEPT !.effectId = EffectIds[i]])

\* Speed slider (min 1, max 7): onChange={(e) => setSpeed(parseInt(e.target.value))}
MoveSpeed ==
    /\ component \in {1, 2}
    /\ \E v \in SpeedChoices :
          SetStateAndRender([ui EXCEPT !.speed = parseInt(numberToString(v)).val])

\* Param slider (min 0, max 7): onChange={(e) => setParam(parseInt(e.target.value))}
MoveParam ==
    /\ component \in {1, 2}
    /\ \E v \in ParamChoices :
          SetStateAndRender([ui EXCEPT !.param = parseInt(numberToString(v)).val])

\* Colour picker and colour text field: onChange={(e) => setBaseColorHex(e.target.value)}
TypeBaseColor ==
    /\ component \in {1, 2}
    /\ \E text \in BaseColorTexts :
          SetStateAndRender([ui EXCEPT !.baseColorHex = text])

\* Sample text field: onChange={(e) => setSampleText(e.target.value)}
TypeSampleText ==
    /\ component \in {1, 2}
    /\ \E text \in SampleTexts :
          SetStateAndRender([ui EXCEPT !.sampleText = text])

NextUi ==
    \/ SelectEffect
    \/ ToggleCustomId
    \/ TypeCustomId
    \/ ClickPreset
    \/ MoveSpeed
    \/ MoveParam
    \/ TypeBaseColor
    \/ TypeSampleText

SpecUi == InitUi /\ [][NextUi]_vars

(***************************************************************************)
(* The docs route src/app/api/docs/[...slug]/route.ts.  Paths are strings  *)
(* (sequences of characters), as in the code; the file system maps the     *)
(* canonical path of every node to the node: a directory, a regular file   *)
(* with its content, or a symbolic link with its target.                   *)
(***************************************************************************)
\* The longest slug that is requested, in segments.
MaxSlugLen == 3

\* How many symbolic links realpath follows before it fails with ELOOP.
MaxSymlinks == 2

\* s.startsWith(prefix)
startsWith(s, prefix) ==
    Len(prefix) <= Len(s) /\ SubSeq(s, 1, Len(prefix)) = prefix

\* s.endsWith(suffix)
endsWith(s, suffix) ==
    Len(suffix) <= Len(s) /\ SubSeq(s, Len(s) - Len(suffix) + 1, Len(s)) = suffix

RECURSIVE split(_)
\* s.split("/")
split(s) ==
    IF \A i \in 1..Len(s) : s[i] # "/" THEN <<s>>
    ELSE LET i == CHOOSE k \in 1..Len(s) :
                      s[k] = "/" /\ \A j \in 1..(k - 1) : s[j] # "/"
         IN  <<SubSeq(s, 1, i - 1)>> \o split(SubSeq(s, i + 1, Len(s)))

RECURSIVE joinSlash(_)
\* parts.join("/")
joinSlash(parts) ==
    IF parts = <<>> THEN <<>>
    ELSE IF Len(parts) = 1 THEN parts[1]
    ELSE parts[1] \o <<"/">> \o joinSlash(Tail(parts))

RECURSIVE normalizeSegments(_, _)
\* The segments of a normalized absolute path: empty and "." segments are dropped,
\* ".." removes the segment before it and is dropped at the root.
normalizeSegments(segments, done) ==
    IF segments = <<>> THEN done
    ELSE IF Head(segments) \in {<<>>, <<".">>}
         THEN normalizeSegments(Tail(segments), done)
    ELSE IF Head(segments) = <<".", ".">>
         THEN normalizeSegments(Tail(segments),
                                IF done = <<>> THEN done
                                ELSE SubSeq(done, 1, Len(done) - 1))
    ELSE normalizeSegments(Tail(segments), Append(done, Head(segments)))

\* path.join(...parts) of node:path (POSIX) for parts of which the first is an
\* absolute path and the last does not end in a slash.
join(parts) ==
    <<"/">> \o joinSlash(normalizeSegments(split(joinSlash(parts)), <<>>))

\* process.cwd()
cwd == <<"/", "p">>

\* const CONTENT_DIR = join(process.cwd(), "content")
CONTENT_DIR == join(<<cwd, <<"c">>>>)

\* The path as it is, the extension not stripped.
stripMdExtension_kept(path) == path

\* path.replace(/\.md$/, "")
stripMdExtension(path) ==
    IF endsWith(path, <<".", "m", "d">>) THEN SubSeq(path, 1, Len(path) - 3) ELSE path

Failed == [ok |-> FALSE, path |-> <<>>]

RECURSIVE resolve(_, _, _, _)
\* The canonical path of the node reached from directory dir (canonical, the root
\* being the empty string) along segments, following at most links symbolic links;
\* Failed when a segment does not exist, a file is used as a directory or too
\* many links are met.
resolve(tree, segments, dir, links) ==
    IF segments = <<>>
    THEN [ok |-> TRUE, path |-> IF dir = <<>> THEN <<"/">> ELSE dir]
    ELSE LET next == dir \o <<"/">> \o Head(segments)
         IN  IF next \notin DOMAIN tree THEN Failed
             ELSE IF tree[next].kind = "link"
             THEN IF links = 0 THEN Failed
                  ELSE LET target == resolve(tree,
                                             normalizeSegments(split(tree[next].target), <<>>),
                                             <<>>, links - 1)
                       IN  IF ~target.ok THEN Failed
                           ELSE resolve(tree, Tail(segments),
                                        IF target.path = <<"/">> THEN <<>> ELSE target.path,
                                        links - 1)
             ELSE IF tree[next].kind = "file" /\ Tail(segments) # <<>> THEN Failed
             ELSE resolve(tree, Tail(segments), next, links)

\* fs.realpath(path): [ok, path]; ok is FALSE when the call throws.
realpath(tree, path) ==
    resolve(tree, normalizeSegments(split(path), <<>>), <<>>, MaxSymlinks)

\* fs.stat(path): [ok, isFile]; symbolic links are followed.
stat(tree, path) ==
    LET real == realpath(tree, path)
    IN  [ok |-> real.ok, isFile |-> real.ok /\ tree[real.path].kind = "file"]

\* fs.readFile(path, "utf-8") of an existing regular file.
readFile(tree, path) == tree[realpath(tree, path).path].content

\* The candidates with .md before .mdx.
possiblePaths_mdFirst(normalizedPath) ==
    <<join(<<CONTENT_DIR, normalizedPath \o <<".", "m", "d">>>>),
      join(<<CONTENT_DIR, normalizedPath \o <<".", "m", "d", "x">>>>),
      join(<<CONTENT_DIR, normalizedPath, <<"i", "n", "d", "e", "x", ".", "m", "d">>>>),
      join(<<CONTENT_DIR, normalizedPath, <<"i", "n", "d", "e", "x", ".", "m", "d", "x">>>>)>>

\* The four candidates of a regular document request, in the order they are tried.
possiblePaths(normalizedPath) ==
    <<join(<<CONTENT_DIR, normalizedPath \o <<".", "m", "d", "x">>>>),
      join(<<CONTENT_DIR, normalizedPath \o <<".", "m", "d">>>>),
      join(<<CONTENT_DIR, normalizedPath, <<"i", "n", "d", "e", "x", ".", "m", "d", "x">>>>),
      join(<<CONTENT_DIR, normalizedPath, <<"i", "n", "d", "e", "x", ".", "m", "d">>>>)>>

NotFound == [content |-> <<>>, foundPath |-> <<>>]

\* realFilePath.startsWith(realContentDir)
underDirectory(realFilePath, realContentDir) ==
    startsWith(realFilePath, realContentDir)

RECURSIVE findDocument(_, _, _)
\* The loop over possiblePaths: content and foundPath after it.
findDocument(tree, paths, realContentDir) ==
    IF paths = <<>> THEN NotFound
    ELSE LET filePath == Head(paths)
             stats == stat(tree, filePath)
         IN  IF ~stats.ok THEN findDocument(tree, Tail(paths), realContentDir)
             ELSE IF stats.isFile
             THEN IF ~underDirectory(realpath(tree, filePath).path, realContentDir)
                  THEN findDocument(tree, Tail(paths), realContentDir)
                  ELSE [content |-> readFile(tree, filePath), foundPath |-> filePath]
             ELSE findDocument(tree, Tail(paths), realContentDir)

\* The response to a regular document request for path.  The documents have no
\* frontmatter and no surrounding white space: the markdown is the content, and
\* X-Doc-Title is the normalized path.
documentResponse(tree, path) ==
    LET normalizedPath == stripMdExtension(path)
        realContentDir == realpath(tree, CONTENT_DIR).path
        found == findDocument(tree, possiblePaths(normalizedPath), realContentDir)
    IN  IF found.content = <<>> \/ found.foundPath = <<>>
        THEN [status |-> 404, body |-> <<>>, docTitle |-> <<>>,
              docPath |-> normalizedPath]
        ELSE [status |-> 200, body |-> found.content, docTitle |-> normalizedPath,
              docPath |-> normalizedPath]

\* The nodes of the file systems.
Dir == [kind |-> "dir", target |-> <<>>, content |-> <<>>]

\* A regular file; its content names the file.
File(path) == [kind |-> "file", target |-> <<>>, content |-> <<"#", " ">> \o path]

EmptyFile == [kind |-> "file", target |-> <<>>, content |-> <<>>]

Link(target) == [kind |-> "link", target |-> target, content |-> <<>>]

\* The directories of every file system: the project directory with the content
\* directory, a directory beside it whose name starts with the content directory's
\* name, and a directory beside it whose name does not.
Directories ==
    (<<"/">> :> Dir) @@ (cwd :> Dir) @@ (CONTENT_DIR :> Dir)
        @@ (CONTENT_DIR \o <<"/", "d">> :> Dir)
        @@ (CONTENT_DIR \o <<"x">> :> Dir)
        @@ (cwd \o <<"/", "s">> :> Dir)

\* A document of the content directory, and the files beside the content directory.
DocMdx == CONTENT_DIR \o <<"/", "a", ".", "m", "d", "x">>

DocMd == CONTENT_DIR \o <<"/", "a", ".", "m", "d">>

DocIndex == CONTENT_DIR \o <<"/", "d">> \o <<"/">> \o <<"i", "n", "d", "e", "x", ".", "m", "d">>

SiblingFile == CONTENT_DIR \o <<"x">> \o <<"/", "a", ".", "m", "d", "x">>

OutsideFile == cwd \o <<"/", "s">> \o <<"/", "a", ".", "m", "d">>

\* The file at path exists or not.
Optional(path) == {<<>>, path :> File(path)}

\* The file systems: the directories, and every choice of which files exist, of
\* whether a.mdx of the content directory is a file or a link to a file beside the
\* content directory, and of whether d/index.md is empty.
FileSystems ==
    {Directories @@ a @@ b @@ c @@ d @@ e :
        a \in Optional(DocMdx) \cup {DocMdx :> Link(SiblingFile), DocMdx :> Link(OutsideFile)},
        b \in Optional(DocMd),
        c \in Optional(DocIndex) \cup {DocIndex :> EmptyFile},
        d \in Optional(SiblingFile),
        e \in Optional(OutsideFile)}

\* The segments requests are made of.
SlugSegments == {<<"a">>, <<"a", ".", "m", "d">>, <<"d">>, <<".", ".">>, <<"c", "x">>, <<"s">>}

Slugs == UNION {[1..n -> SlugSegments] : n \in 1..MaxSlugLen}

\* A request is about to be made on some file system.
InitDocs ==
    /\ fs \in FileSystems
    /\ slug = <<>>
    /\ response = NoResult
    /\ docPc = "start"
    /\ EncodeIdle
    /\ UnitIdle
    /\ HexIdle
    /\ UiIdle
    /\ ListIdle
    /\ WidgetsIdle

\* GET /api/docs/[...slug] for a regular document: path is neither "_index" nor "_all".
GetDocument ==
    /\ docPc = "start"
    /\ \E s \in Slugs :
       \E path \in {joinSlash(s)} :
           /\ path \notin {<<"_", "i", "n", "d", "e", "x">>, <<"_", "a", "l", "l">>}
           /\ slug' = s
           /\ response' = documentResponse(fs, path)
    /\ docPc' = "done"
    /\ UNCHANGED fs
    /\ UNCHANGED listVars
    /\ UNCHANGED notDocsVars

NextDocs == GetDocument

SpecDocs == InitDocs /\ [][NextDocs]_vars

(***************************************************************************)
(* listDocs and the routes _index and _all.  listDocs awaits the file      *)
(* system at every directory and calls itself for every subdirectory: the  *)
(* calls that have not returned are the stack, and one step is one         *)
(* directory entered, one entry handled or one call returned.              *)
(***************************************************************************)
\* The characters of entry names, in the order of their character codes.
Alphabet == <<".", "_", "a", "d", "e", "h", "i", "k", "l", "m", "n", "x">>

CharCode(c) == CHOOSE i \in 1..Len(Alphabet) : Alphabet[i] = c

RECURSIVE Less(_, _)
\* s comes before t in the order of strings.
Less(s, t) ==
    IF s = <<>> THEN t # <<>>
    ELSE IF t = <<>> THEN FALSE
    ELSE IF Head(s) = Head(t) THEN Less(Tail(s), Tail(t))
    ELSE CharCode(Head(s)) < CharCode(Head(t))

RECURSIVE Ascending(_)
\* The directory entries of set, ascending by name.
Ascending(set) ==
    IF set = {} THEN <<>>
    ELSE LET first == CHOOSE e \in set : \A o \in set \ {e} : Less(e.name, o.name)
         IN  <<first>> \o Ascending(set \ {first})

Reverse(seq) == [i \in 1..Len(seq) |-> seq[Len(seq) + 1 - i]]

\* The canonical paths of the nodes in directory dir (canonical).
Children(tree, dir) ==
    {p \in DOMAIN tree :
        /\ startsWith(p, dir \o <<"/">>)
        /\ Len(p) > Len(dir) + 1
        /\ \A i \in (Len(dir) + 2)..Len(p) : p[i] # "/"}

\* The fs.Dirent of node p of directory dir: a symbolic link is not a directory.
Dirent(tree, dir, p) ==
    [name |-> SubSeq(p, Len(dir) + 2, Len(p)), isDirectory |-> tree[p].kind = "dir"]

\* readdir(dir, { withFileTypes: true }) of an existing directory: the entries in
\* one of the orders a file system delivers them in, here ascending or descending
\* by name.
readdir(tree, dir) ==
    LET real == realpath(tree, dir).path
        entries == Ascending({Dirent(tree, real, p) : p \in Children(tree, real)})
    IN  {entries, Reverse(entries)}

\* relativePath.replace(/\.(mdx?|md)$/, "")
stripDocExtension(relativePath) ==
    IF endsWith(relativePath, <<".", "m", "d", "x">>)
    THEN SubSeq(relativePath, 1, Len(relativePath) - 4)
    ELSE IF endsWith(relativePath, <<".", "m", "d">>)
    THEN SubSeq(relativePath, 1, Len(relativePath) - 3)
    ELSE relativePath

\* A call of listDocs(dir, prefix, seenDocs, visitedDirs) that has just been made.
Frame(dir, prefix) ==
    [dir |-> dir, prefix |-> prefix, at |-> "enter", entries |-> <<>>, docs |-> <<>>]

\* The innermost call returns docs to the call below it, which pushes them onto its
\* own docs; the outermost call returns them to its caller.
Return(rest, docs) ==
    IF rest = <<>>
    THEN /\ stack' = <<>>
         /\ listed' = [ok |-> TRUE, docs |-> docs]
    ELSE /\ stack' = <<[Head(rest) EXCEPT !.docs = @ \o docs]>> \o Tail(rest)
         /\ UNCHANGED listed

\* No directory counts as visited.
has_never(set, element) == FALSE

\* set.has(element) of a Set of strings.
has(set, element) == element \in set

\* Lines 47-55: the canonical path of dir; a directory already visited returns the
\* empty list, another one is marked visited and read.
ListEnter ==
    /\ docPc = "listing"
    /\ stack # <<>>
    /\ Head(stack).at = "enter"
    /\ \E real \in {realpath(fs, Head(stack).dir)} :
          IF ~real.ok
          THEN /\ stack' = <<>>
               /\ listed' = [ok |-> FALSE, docs |-> <<>>]
               /\ UNCHANGED <<visitedDirs, reads>>
          ELSE IF has(visitedDirs, real.path)
          THEN /\ Return(Tail(stack), <<>>)
               /\ UNCHANGED <<visitedDirs, reads>>
          ELSE /\ visitedDirs' = visitedDirs \cup {real.path}
               /\ reads' = Append(reads, real.path)
               /\ \E entries \in readdir(fs, Head(stack).dir) :
                     stack' = <<[Head(stack) EXCEPT !.at = "loop", !.entries = entries]>>
                                  \o Tail(stack)
               /\ UNCHANGED listed
    /\ UNCHANGED <<listCall, seenDocs>>
    /\ UNCHANGED docsVars
    /\ UNCHANGED notDocsVars

\* Only hidden entries are skipped.
skipEntry_hiddenOnly(name) == startsWith(name, <<".">>)

\* entry.name.startsWith("_") || entry.name.startsWith(".")
skipEntry(name) == startsWith(name, <<"_">>) \/ startsWith(name, <<".">>)

\* Lines 58-76: one entry of the loop.
ListEntry ==
    /\ docPc = "listing"
    /\ stack # <<>>
    /\ Head(stack).at = "loop"
    /\ Head(stack).entries # <<>>
    /\ \E frame \in {[Head(stack) EXCEPT !.entries = Tail(@)]} :
       \E entry \in {Head(Head(stack).entries)} :
       \E fullPath \in {join(<<frame.dir, entry.name>>)} :
       \E relativePath \in {IF frame.prefix # <<>>
                            THEN frame.prefix \o <<"/">> \o entry.name
                            ELSE entry.name} :
       \E urlPath \in {stripDocExtension(relativePath)} :
          IF skipEntry(entry.name)
          THEN /\ stack' = <<frame>> \o Tail(stack)
               /\ UNCHANGED seenDocs
          ELSE IF entry.isDirectory
          THEN /\ stack' = <<Frame(fullPath, relativePath), frame>> \o Tail(stack)
               /\ UNCHANGED seenDocs
          ELSE IF endsWith(entry.name, <<".", "m", "d", "x">>) \/ endsWith(entry.name, <<".", "m", "d">>)
          THEN IF ~has(seenDocs, urlPath)
               THEN /\ seenDocs' = seenDocs \cup {urlPath}
                    /\ stack' = <<[frame EXCEPT !.docs = Append(@, urlPath)]>>
                                    \o Tail(stack)
               ELSE /\ stack' = <<frame>> \o Tail(stack)
                    /\ UNCHANGED seenDocs
          ELSE /\ stack' = <<frame>> \o Tail(stack)
               /\ UNCHANGED seenDocs
    /\ UNCHANGED <<listCall, visitedDirs, reads, listed>>
    /\ UNCHANGED docsVars
    /\ UNCHANGED notDocsVars

\* Line 78: return docs.
ListReturn ==
    /\ docPc = "listing"
    /\ stack # <<>>
    /\ Head(stack).at = "loop"
    /\ Head(stack).entries = <<>>
    /\ Return(Tail(stack), Head(stack).docs)
    /\ UNCHANGED <<listCall, seenDocs, visitedDirs, reads>>
    /\ UNCHANGED docsVars
    /\ UNCHANGED notDocsVars

\* processDocContent(filePath, docPath, realContentDir): the lines of one document,
\* ok FALSE when it throws.  The documents have no frontmatter and no surrounding
\* white space: the title is docPath and the markdown is the content.
processDocContent(tree, filePath, docPath, realContentDir) ==
    LET realFilePath == realpath(tree, filePath)
    IN  IF ~realFilePath.ok THEN [ok |-> FALSE, lines |-> <<>>]
        ELSE IF ~underDirectory(realFilePath.path, realContentDir)
        THEN [ok |-> FALSE, lines |-> <<>>]
        ELSE IF tree[realFilePath.path].kind # "file"
        THEN [ok |-> FALSE, lines |-> <<>>]
        ELSE [ok |-> TRUE,
              lines |-> <<<<"#", " ">> \o docPath, <<>>, readFile(tree, filePath),
                          <<>>, <<"-", "-", "-">>, <<>>>>]

\* Lines 169-182: the lines of document docPath, .mdx before .md, none when both throw.
docLines(tree, docPath, realContentDir) ==
    LET mdx == processDocContent(tree, join(<<CONTENT_DIR, docPath \o <<".", "m", "d", "x">>>>),
                                 docPath, realContentDir)
        md == processDocContent(tree, join(<<CONTENT_DIR, docPath \o <<".", "m", "d">>>>),
                                docPath, realContentDir)
    IN  IF mdx.ok THEN mdx.lines ELSE IF md.ok THEN md.lines ELSE <<>>

RECURSIVE allLines(_, _, _)
\* The lines of all documents docs, in their order.
allLines(tree, docs, realContentDir) ==
    IF docs = <<>> THEN <<>>
    ELSE docLines(tree, Head(docs), realContentDir)
             \o allLines(tree, Tail(docs), realContentDir)

RECURSIVE joinLines(_)
\* contents.join("\n")
joinLines(lines) ==
    IF lines = <<>> THEN <<>>
    ELSE IF Len(lines) = 1 THEN lines[1]
    ELSE lines[1] \o <<"\n">> \o joinLines(Tail(lines))

\* The first lines of the _all document.
AllHeader ==
    <<<<"#", " ", "O", "r", "a", "x", "e", "n", " ", "-", " ", "C", "o", "m", "p", "l", "e", "t", "e", " ", "D", "o", "c", "u", "m", "e", "n", "t", "a", "t", "i", "o", "n">>,
      <<>>,
      <<">", " ", "T", "h", "i", "s", " ", "f", "i", "l", "e", " ", "c", "o", "n", "t", "a", "i", "n", "s", " ", "a", "l", "l", " ", "d", "o", "c", "u", "m", "e", "n", "t", "a", "t", "i", "o", "n", " ", "c", "o", "n", "c", "a", "t", "e", "n", "a", "t", "e", "d", " ", "f", "o", "r", " ", "A", "I", " ", "a", "g", "e", "n", "t", " ", "c", "o", "n", "s", "u", "m", "p", "t", "i", "o", "n", ".">>,
      <<>>,
      <<"-", "-", "-">>,
      <<>>>>

\* The response of the _index route to the list docs.
indexResponse(result) ==
    IF ~result.ok
    THEN [status |-> 500, error |-> "Failed to list docs", docs |-> <<>>]
    ELSE [status |-> 200, error |-> "",
          docs |-> [i \in 1..Len(result.docs) |->
                       [path |-> result.docs[i],
                        url |-> <<"/", "a", "p", "i", "/", "d", "o", "c", "s", "/">> \o result.docs[i],
                        html_url |-> <<"/">> \o (IF result.docs[i] = <<"i", "n", "d", "e", "x">>
                                                 THEN <<>> ELSE result.docs[i])]]]

\* The response of the _all route to the list docs.
allResponse(tree, result) ==
    IF ~result.ok \/ ~realpath(tree, CONTENT_DIR).ok
    THEN [status |-> 500, error |-> "Failed to compile docs", body |-> <<>>]
    ELSE [status |-> 200, error |-> "",
          body |-> joinLines(AllHeader
                                 \o allLines(tree, result.docs,
                                             realpath(tree, CONTENT_DIR).path))]

\* The file at path exists with the content given, or not.
OptionalNode(path, node) == {<<>>, path :> node}

\* The nodes beside the documents a, a.md and d/index: a hidden file, a directory
\* whose name starts with an underscore, and a link in d back to the content
\* directory.
HiddenFile == CONTENT_DIR \o <<"/", ".", "h", ".", "m", "d">>

MetaDir == CONTENT_DIR \o <<"/", "_", "x">>

MetaFile == MetaDir \o <<"/", "a", ".", "m", "d">>

DocMdMdx == CONTENT_DIR \o <<"/", "a", ".", "m", "d", ".", "m", "d", "x">>

NestedDoc == CONTENT_DIR \o <<"/", "d">> \o <<"/", "a", ".", "m", "d", "x">>

BackLink == CONTENT_DIR \o <<"/", "d">> \o <<"/", "l">>

\* The file systems listDocs runs on.
ListFileSystems ==
    {Directories @@ (OutsideFile :> File(OutsideFile)) @@ a @@ b @@ c @@ d @@ e @@ f :
        a \in Optional(DocMdx) \cup {DocMdx :> Link(OutsideFile), DocMdx :> EmptyFile},
        b \in Optional(DocMd),
        c \in Optional(DocMdMdx),
        d \in Optional(NestedDoc),
        e \in OptionalNode(BackLink, Link(CONTENT_DIR)),
        f \in {<<>>, HiddenFile :> File(HiddenFile),
               (MetaDir :> Dir) @@ (MetaFile :> File(MetaFile))}}

\* A request to _index or _all, or a call of listDocs, is about to be made.
InitList ==
    /\ fs \in ListFileSystems
    /\ slug = <<>>
    /\ response = NoResult
    /\ docPc = "start"
    /\ ListIdle
    /\ WidgetsIdle
    /\ EncodeIdle
    /\ UnitIdle
    /\ HexIdle
    /\ UiIdle

\* The outermost call listDocs(dir, prefix, seen, visited).
CallListDocs(dir, prefix, seen, visited) ==
    /\ listCall' = [dir |-> dir, prefix |-> prefix, seenDocs |-> seen,
                    visitedDirs |-> visited]
    /\ stack' = <<Frame(dir, prefix)>>
    /\ seenDocs' = seen
    /\ visitedDirs' = visited
    /\ UNCHANGED <<reads, listed>>

\* GET /api/docs/_index and GET /api/docs/_all up to their call listDocs().
RequestList ==
    /\ docPc = "start"
    /\ \E s \in {<<<<"_", "i", "n", "d", "e", "x">>>>, <<<<"_", "a", "l", "l">>>>} :
          slug' = s
    /\ CallListDocs(CONTENT_DIR, <<>>, {}, {})
    /\ docPc' = "listing"
    /\ UNCHANGED <<fs, response>>
    /\ UNCHANGED notDocsVars

\* listDocs called with arguments of its own: a directory or a link to one, a
\* prefix, documents already seen and directories already visited.
DirectCall ==
    /\ docPc = "start"
    /\ \E dir \in {CONTENT_DIR, CONTENT_DIR \o <<"/", "d">>, BackLink} :
       \E prefix \in {<<>>, <<"d">>} :
       \E seen \in SUBSET {<<"a">>} :
       \E visited \in SUBSET {CONTENT_DIR, CONTENT_DIR \o <<"/", "d">>} :
          /\ realpath(fs, dir).ok
          /\ CallListDocs(dir, prefix, seen, visited)
    /\ docPc' = "listing"
    /\ UNCHANGED <<fs, slug, response>>
    /\ UNCHANGED notDocsVars

\* listDocs has returned or thrown: the route answers, a direct call is over.
Respond ==
    /\ docPc = "listing"
    /\ stack = <<>>
    /\ response' = IF slug = <<<<"_", "i", "n", "d", "e", "x">>>> THEN indexResponse(listed)
                   ELSE IF slug = <<<<"_", "a", "l", "l">>>> THEN allResponse(fs, listed)
                   ELSE response
    /\ docPc' = "done"
    /\ UNCHANGED <<fs, slug>>
    /\ UNCHANGED listVars
    /\ UNCHANGED notDocsVars

NextList ==
    \/ RequestList
    \/ DirectCall
    \/ ListEnter
    \/ ListEntry
    \/ ListReturn
    \/ Respond

SpecList == InitList /\ [][NextList]_vars

(***************************************************************************)
(* The three routes of GET /api/docs/[...slug] together.                   *)
(***************************************************************************)
\* The file systems are those of the document requests.
InitRoutes == InitDocs

NextRoutes ==
    \/ GetDocument
    \/ RequestList
    \/ DirectCall
    \/ ListEnter
    \/ ListEntry
    \/ ListReturn
    \/ Respond

SpecRoutes == InitRoutes /\ [][NextRoutes]_vars

(***************************************************************************)
(* The editor of ShaderPreview (src/unnamed/part_002): the code of a       *)
(* shader, its compilation by parseGLSL, and the debounced auto-compile.   *)
(* Code is a sequence of statements; time passes in ticks of 100 ms.       *)
(***************************************************************************)
\* The statements the code is written with: blank space, a comment, the
\* statements parseGLSL looks for with the expression E, pos.x with an
\* expression that is no JavaScript, and a statement parseGLSL does not know.
Statements ==
    {" ", "// c", "pos.x += E;", "pos.x += (;", "pos.y += E;", "texColor.a *= E;",
     "float hue = E;", "x"}

Codes == UNION {[1..n -> Statements] : n \in 0..MaxCodeLen}

\* What the statement assigns to and the expression it assigns, as the regular
\* expressions of parseGLSL see it; "" for a statement none of them matches.
assigned(statement) ==
    CASE statement \in {"pos.x += E;", "pos.x += (;"} -> "pos.x"
      [] statement = "pos.y += E;" -> "pos.y"
      [] statement = "texColor.a *= E;" -> "texColor.a"
      [] statement = "float hue = E;" -> "hue"
      [] OTHER -> ""

expression(statement) == IF statement = "pos.x += (;" THEN "(" ELSE "E"

Null == "null"

\* cleanCode.match(...): the expression of the first statement that assigns to
\* the target, Null when there is none.
match(code, target) ==
    IF \E i \in 1..Len(code) : assigned(code[i]) = target
    THEN expression(code[CHOOSE i \in 1..Len(code) :
                             /\ assigned(code[i]) = target
                             /\ \A j \in 1..(i - 1) : assigned(code[j]) # target])
    ELSE Null

\* No evaluator for no expression and for one new Function() rejects; the
\* evaluator is named by what it evaluates.
createEvaluator(expr) ==
    IF expr = Null \/ expr = "(" THEN Null ELSE "evaluator of " \o expr

createColorEvaluator(hueExpr) ==
    IF hueExpr = Null \/ hueExpr = "(" THEN Null ELSE "hsv2rgb of " \o hueExpr

parseGLSL(code) ==
    [posX |-> createEvaluator(match(code, "pos.x")),
     posY |-> createEvaluator(match(code, "pos.y")),
     color |-> createColorEvaluator(match(code, "hue")),
     alpha |-> createEvaluator(match(code, "texColor.a"))]

\* code.trim() is the empty string.
trimmedEmpty(code) == \A i \in 1..Len(code) : code[i] = " "

\* The code without its comments, trimmed, is the empty string.
cleanEmpty(code) == \A i \in 1..Len(code) : code[i] \in {" ", "// c"}

NoShader == [posX |-> Null, posY |-> Null, color |-> Null, alpha |-> Null]

hasEffect(kind, parsed) ==
    IF kind = "vertex" THEN parsed.posX # Null \/ parsed.posY # Null
    ELSE parsed.color # Null \/ parsed.alpha # Null

usage(kind) ==
    IF kind = "vertex" THEN "Use: pos.x += ... or pos.y += ..."
    ELSE "Use: texColor.rgb = ... or texColor.a *= ..."

\* compileVertex and compileFragment, on the code of the render that made them.
compile(e, code) ==
    IF trimmedEmpty(code)
    THEN [e EXCEPT !.status = "empty", !.error = Null, !.compiled = NoShader]
    ELSE LET parsed == parseGLSL(code)
         IN  IF hasEffect(e.kind, parsed)
             THEN [e EXCEPT !.status = "valid", !.error = Null, !.compiled = parsed]
             ELSE IF ~cleanEmpty(code)
             THEN [e EXCEPT !.status = "error", !.error = usage(e.kind),
                            !.compiled = parsed]
             ELSE [e EXCEPT !.status = "empty", !.error = Null, !.compiled = parsed]

\* setTimeout(..., 300): the delay of the auto-compile in ticks.
CompileDelay == 3

\* clearTimeout(timeout), which leaves the timeout pending.
clearTimeout_ignored(pending, timeout) == pending

\* clearTimeout(timeout)
clearTimeout(pending, timeout) == pending \ timeout

\* setTimeout(callback, delay)
setTimeout(pending, callback, delay) == pending \cup {[callback |-> callback, left |-> delay]}

\* The code of the templates: none, and a comment with one statement.
TemplateCode(kind) ==
    {<<>>, IF kind = "vertex" THEN <<"// c", "pos.y += E;">> ELSE <<"// c", "float hue = E;">>}

\* The component after its first render and its effects: the auto-compile effect
\* has run once.
InitEditor ==
    /\ \E kind \in {"vertex", "fragment"} :
       \E code \in TemplateCode(kind) :
          /\ editor = [kind |-> kind, code |-> code, status |-> "compiling",
                       error |-> Null, compiled |-> parseGLSL(code)]
          /\ timers = setTimeout({}, code, CompileDelay)
    /\ sinceChange = 0
    /\ EncodeIdle
    /\ UnitIdle
    /\ HexIdle
    /\ UiIdle
    /\ DocsIdle
    /\ ListIdle
    /\ PreviewIdle
    /\ ClipIdle

notEditorVars == <<encodeVars, unitVars, hexVars, uiVars, docsVars, listVars, preview, clip>>

\* What the code can be changed to in one event: a statement typed or pasted at
\* its end, its last statement deleted, all of it deleted, or a template.
Changes(kind, code) ==
    ({Append(code, statement) : statement \in Statements} \cap Codes)
        \cup {SubSeq(code, 1, Len(code) - 1), <<>>}
        \cup TemplateCode(kind)

\* The code is changed, by typing or by a template: the cleanup of the
\* auto-compile effect clears its timeout, and the effect sets the status and a
\* new timeout whose callback compiles the new code.
ChangeCode ==
    /\ editor.kind # "none"
    /\ \E code \in Changes(editor.kind, editor.code) \ {editor.code} :
          /\ editor' = [editor EXCEPT !.code = code, !.status = "compiling"]
          /\ timers' = setTimeout(clearTimeout(timers, timers), code, CompileDelay)
    /\ sinceChange' = 0
    /\ UNCHANGED notEditorVars

\* 100 ms pass.
Tick ==
    /\ editor.kind # "none"
    /\ sinceChange <= CompileDelay \/ \E t \in timers : t.left > 0
    /\ timers' = {[t EXCEPT !.left = IF t.left > 0 THEN t.left - 1 ELSE 0] : t \in timers}
    /\ sinceChange' = IF sinceChange <= CompileDelay THEN sinceChange + 1 ELSE sinceChange
    /\ UNCHANGED editor
    /\ UNCHANGED notEditorVars

\* A timeout that is due runs its callback.
TimeoutFires ==
    /\ editor.kind # "none"
    /\ \E t \in timers :
          /\ t.left = 0
          /\ editor' = compile(editor, t.callback)
          /\ timers' = timers \ {t}
    /\ UNCHANGED sinceChange
    /\ UNCHANGED notEditorVars

\* Ctrl+S or Cmd+S: the code is compiled at once.
SaveShortcut ==
    /\ editor.kind # "none"
    /\ editor' = compile(editor, editor.code)
    /\ UNCHANGED <<timers, sinceChange>>
    /\ UNCHANGED notEditorVars

NextEditor ==
    \/ ChangeCode
    \/ Tick
    \/ TimeoutFires
    \/ SaveShortcut

SpecEditor == InitEditor /\ [][NextEditor]_vars

\* Time passes and a timeout that is due is run.
SpecEditorFair == SpecEditor /\ WF_vars(Tick) /\ WF_vars(TimeoutFires)

(***************************************************************************)
(* The animation of the three ShaderPreview components: the WebGL preview  *)
(* and the editor's preview of src/unnamed/part_002 and the canvas preview *)
(* of src/unnamed/part_003.  A render of React after an event of the user  *)
(* is one step with the effects it runs; after a promise or a timeout the  *)
(* effects run in a step of their own, before the next render at the       *)
(* latest.  An animation-frame callback is one step.                       *)
(***************************************************************************)
Variants == {"webgl", "editor", "canvas"}

\* The handles of the callbacks that are pending.
Handles(frames) == {f.id : f \in frames}

\* cancelAnimationFrame(handle), which leaves the callback pending.
cancelAnimationFrame_ignored(frames, handle) == frames

\* cancelAnimationFrame(handle)
cancelAnimationFrame(frames, handle) == {f \in frames : f.id # handle}

\* animationRef.current = requestAnimationFrame(render): the callback is the
\* render of a render of React, which has that render's isPlaying; the handle
\* is one that is not in use.
requestAnimationFrame(p, isPlaying) ==
    LET handle == CHOOSE h \in 1..(Cardinality(p.frames) + 2) :
                      h \notin Handles(p.frames) \cup {p.animationRef}
    IN  [p EXCEPT !.frames = @ \cup {[id |-> handle, isPlaying |-> isPlaying]},
                  !.animationRef = handle]

\* The frames drawn since the last change are counted up to 2.
draw(p) == [p EXCEPT !.drawn = IF @ < 2 THEN @ + 1 ELSE @]

\* render(), made by a render of React with the isPlaying given.  The WebGL
\* preview draws nothing without a context or a program.
render(p, isPlaying) ==
    IF p.variant = "webgl" /\ ~(p.gl /\ p.program) THEN p
    ELSE IF isPlaying THEN requestAnimationFrame(draw(p), isPlaying)
    ELSE draw(p)

\* The cleanup of the animation effect, if its last run returned one.
cleanup(p) ==
    IF p.hasCleanup /\ p.animationRef # 0
    THEN [p EXCEPT !.frames = cancelAnimationFrame(@, p.animationRef)]
    ELSE p

\* if (isPlaying) animationRef.current = requestAnimationFrame(render) else render()
startOrRender(p) ==
    IF p.isPlaying THEN requestAnimationFrame(p, p.isPlaying) ELSE render(p, p.isPlaying)

\* The animation effect.  The WebGL preview first gets its context, if there is
\* none yet, and compiles its program.
effect(p) ==
    IF ~p.fontLoaded THEN [p EXCEPT !.hasCleanup = FALSE]
    ELSE IF p.variant # "webgl" THEN startOrRender([p EXCEPT !.hasCleanup = TRUE])
    ELSE IF ~p.gl /\ ~p.supported THEN [p EXCEPT !.hasCleanup = FALSE]
    ELSE IF p.compiles
    THEN startOrRender([p EXCEPT !.gl = TRUE, !.program = TRUE, !.hasCleanup = TRUE])
    ELSE [p EXCEPT !.gl = TRUE, !.hasCleanup = TRUE]

\* The effects of a render of React after a change of what the animation effect
\* depends on: the cleanup of its last run, then the effect.
runEffects(p) == effect(cleanup([p EXCEPT !.drawn = 0, !.effectsPending = FALSE]))

\* The effects that are still to run are run before the next render.
flushPassiveEffects(p) == IF p.effectsPending THEN runEffects(p) ELSE p

\* The component after its first render and its effects: the font is not loaded
\* yet, and the animation effect has returned at once.
InitPreview ==
    /\ \E variant \in Variants :
       \E supported \in BOOLEAN :
          /\ variant # "webgl" => supported
          /\ preview = [mounted |-> TRUE, variant |-> variant, supported |-> supported,
                        fontLoaded |-> FALSE, isPlaying |-> TRUE, compiles |-> TRUE,
                        gl |-> FALSE, program |-> FALSE, hasCleanup |-> FALSE,
                        animationRef |-> 0, frames |-> {}, drawn |-> 0,
                        effectsPending |-> FALSE]
    /\ EncodeIdle
    /\ UnitIdle
    /\ HexIdle
    /\ UiIdle
    /\ DocsIdle
    /\ ListIdle
    /\ EditorIdle
    /\ ClipIdle

notPreviewVars == <<encodeVars, unitVars, hexVars, uiVars, docsVars, listVars, editorVars,
                    clip>>

\* font.load() has settled: setFontLoaded(true).
FontLoads ==
    /\ preview.mounted
    /\ ~preview.fontLoaded
    /\ preview' = [flushPassiveEffects(preview) EXCEPT !.fontLoaded = TRUE,
                                                       !.effectsPending = TRUE]
    /\ UNCHANGED notPreviewVars

\* The timeout of the editor's auto-compile has set another compiled shader.
CompiledChanges ==
    /\ preview.mounted
    /\ preview.variant = "editor"
    /\ preview' = [flushPassiveEffects(preview) EXCEPT !.effectsPending = TRUE]
    /\ UNCHANGED notPreviewVars

\* React runs the effects of its last render.
FlushEffects ==
    /\ preview.mounted
    /\ preview.effectsPending
    /\ preview' = runEffects(preview)
    /\ UNCHANGED notPreviewVars

\* The play/pause button: setIsPlaying(!isPlaying).
TogglePlaying ==
    /\ preview.mounted
    /\ preview' = runEffects([flushPassiveEffects(preview) EXCEPT !.isPlaying = ~@])
    /\ UNCHANGED notPreviewVars

\* An input that render depends on changes: text, speed, param, a colour, the
\* template or the shader code.  The code of the WebGL preview compiles or not.
ChangeInput ==
    /\ preview.mounted
    /\ \E compiles \in BOOLEAN :
          /\ preview.variant # "webgl" => compiles
          /\ preview' = runEffects([flushPassiveEffects(preview) EXCEPT
                                        !.compiles = compiles])
    /\ UNCHANGED notPreviewVars

\* The browser runs an animation-frame callback that is pending.
FrameCallback ==
    /\ \E f \in preview.frames :
          preview' = render([preview EXCEPT !.frames = @ \ {f}], f.isPlaying)
    /\ UNCHANGED notPreviewVars

\* The component is unmounted: the cleanup of the effect runs.
Unmount ==
    /\ preview.mounted
    /\ preview' = [cleanup(preview) EXCEPT !.mounted = FALSE, !.effectsPending = FALSE]
    /\ UNCHANGED notPreviewVars

NextPreview ==
    \/ FontLoads
    \/ CompiledChanges
    \/ FlushEffects
    \/ TogglePlaying
    \/ ChangeInput
    \/ FrameCallback
    \/ Unmount

SpecPreview == InitPreview /\ [][NextPreview]_vars

(***************************************************************************)
(* The copy buttons of the second TextEffectGenerator: copyToClipboard and *)
(* its reset timeouts.  Time passes in ticks of 500 ms, and a timeout runs *)
(* when it is due.                                                         *)
(***************************************************************************)
\* setTimeout(..., 2000): the delay of the reset in ticks.
ResetDelay == 4

\* The labels of the two copy buttons.
Labels == {"hex", "mini"}

\* The timeouts that are pending, counted by the ticks they have left.
NoTimeouts == [left \in 0..ResetDelay |-> 0]

RECURSIVE Sum(_, _)
Sum(f, upTo) == IF upTo < 0 THEN 0 ELSE f[upTo] + Sum(f, upTo - 1)

Pending(timeouts) == Sum(timeouts, ResetDelay)

\* The second TextEffectGenerator after its first render.  No copy was made:
\* the time since the last copy is beyond every delay.
InitCopy ==
    /\ clip = [mounted |-> TRUE, copied |-> Null, last |-> Null, clipboard |-> Null,
               since |-> ResetDelay + 1, timeouts |-> NoTimeouts]
    /\ EncodeIdle
    /\ UnitIdle
    /\ HexIdle
    /\ UiIdle
    /\ DocsIdle
    /\ ListIdle
    /\ EditorIdle
    /\ PreviewIdle

notClipVars == <<encodeVars, unitVars, hexVars, uiVars, docsVars, listVars, editorVars,
                 preview>>

\* copyToClipboard(text, label): a copy button is clicked.  The timeout it sets
\* is kept by nobody.
CopyToClipboard ==
    /\ clip.mounted
    /\ Pending(clip.timeouts) < MaxTimers
    /\ \E label \in Labels :
          clip' = [clip EXCEPT !.clipboard = "text of " \o label,
                               !.copied = label,
                               !.last = label,
                               !.since = 0,
                               !.timeouts[ResetDelay] = @ + 1]
    /\ UNCHANGED notClipVars

\* 500 ms pass, when no timeout is due.
TickCopy ==
    /\ clip.mounted
    /\ clip.timeouts[0] = 0
    /\ clip.since <= ResetDelay
    /\ clip' = [clip EXCEPT !.since = @ + 1,
                            !.timeouts = [left \in 0..ResetDelay |->
                                              IF left < ResetDelay
                                              THEN clip.timeouts[left + 1] ELSE 0]]
    /\ UNCHANGED notClipVars

\* A reset timeout that is due runs: setCopied(null).
ResetFires ==
    /\ clip.mounted
    /\ clip.timeouts[0] > 0
    /\ clip' = [clip EXCEPT !.copied = Null, !.timeouts[0] = @ - 1]
    /\ UNCHANGED notClipVars

NextCopy ==
    \/ CopyToClipboard
    \/ TickCopy
    \/ ResetFires

SpecCopy == InitCopy /\ [][NextCopy]_vars

(***************************************************************************)
(* What the claims are stated with: arithmetic, not the bitwise operators. *)
(***************************************************************************)
\* x & 7 in two's complement: the low 3 bits of x.
Low3(x) == x % 8

\* v saturated to lo..hi.
Saturate(v, lo, hi) == IF v < lo THEN lo ELSE IF v > hi THEN hi ELSE v

\* x & 0xF0 for a byte x.
HighBits(x) == (x \div 16) * 16

\* The red values reserved for animated glyphs.
Sentinels == {254} \cup (62..64)

\* The image of encodeNibble.
NibbleImage == {1, 2, 3, 4, 6, 7, 8, 9}

\* The conforming decoder of one channel: the low 4 bits, minus DATA_MIN = 1,
\* minus one more above DATA_GAP = 5, masked to 3 bits.
DecodeChannel(ch) ==
    LET nibble == ch % 16
        data == IF nibble > 5 THEN (nibble - 1) - 1 ELSE nibble - 1
    IN  data % 8

\* The red channel after nibble-encoding and before the sentinel adjustment.
RawRed == encodeChannel(baseColor.r, Low3(effectId))

(***************************************************************************)
(* Claims.                                                                 *)
(***************************************************************************)
\* C1: encodeTextEffect returns r = avoidAnimationSentinels(encodeChannel(base.r,
\* effectId & 7)), g = encodeChannel(base.g, clamp(speed,1,7)) and
\* b = encodeChannel(base.b, clamp(param,0,7)); the sentinel adjustment is applied
\* to red only.
C1_ChannelsOfEncodeTextEffect ==
    pc = "done" =>
        /\ encoded.r = avoidAnimationSentinels(encodeChannel(baseColor.r, Low3(effectId)))
        /\ encoded.g = encodeChannel(baseColor.g, Saturate(speed, 1, 7))
        /\ encoded.b = encodeChannel(baseColor.b, Saturate(param, 0, 7))

C1_Witness ==
    /\ pc = "done"
    /\ effectId = -3 /\ baseColor.r = 200 /\ encoded.r = 199
    /\ speed = 99 /\ baseColor.g = 254 /\ encoded.g = 249
    /\ param = -5 /\ baseColor.b = 64 /\ encoded.b = 65

\* C2: decoding each output channel of encodeTextEffect with the conforming decoder
\* yields (effectId & 7, clamp(speed,1,7), clamp(param,0,7)).
C2_RoundTrip ==
    pc = "done" =>
        /\ DecodeChannel(encoded.r) = Low3(effectId)
        /\ DecodeChannel(encoded.g) = Saturate(speed, 1, 7)
        /\ DecodeChannel(encoded.b) = Saturate(param, 0, 7)

C2_Witness ==
    /\ pc = "done"
    /\ param = 6 /\ baseColor.b = 0 /\ encoded.b = 8 /\ DecodeChannel(encoded.b) = 6
    /\ effectId = 99 /\ DecodeChannel(encoded.r) = 3
    /\ speed = -5 /\ DecodeChannel(encoded.g) = 1

\* C3: on the inputs 0..7 encodeNibble is injective and its image is exactly
\* {1,2,3,4,6,7,8,9}: it never returns 0 and never returns 5.
C3_NibbleInjectiveOnto ==
    (fn = "encodeNibble" /\ unitData \in 0..7) =>
        /\ ret \in NibbleImage
        /\ ret # 0 /\ ret # 5
        /\ \A d \in 0..7 : encodeNibble(d) = ret => d = unitData
        /\ \A v \in NibbleImage : \E d \in 0..7 : encodeNibble(d) = v

C3_Witness == fn = "encodeNibble" /\ unitData = 4 /\ ret = 6

\* C4: the red channel returned by encodeTextEffect is never 254 and never in 62..64.
C4_RedNeverSentinel == pc = "done" => encoded.r # 254 /\ encoded.r \notin 62..64

C4_Witness ==
    pc = "done" /\ baseColor.r = 62 /\ effectId = 0 /\ encoded.r = 49

\* C5: encodeChannel(base, data) & 0xF0 = base & 0xF0 for every byte base and every
\* integer data: the high 4 bits are kept and only the low 4 bits are overwritten.
C5_ChannelKeepsHighBits ==
    fn = "encodeChannel" =>
        /\ ret \in Byte
        /\ HighBits(ret) = HighBits(unitBase)

C5_Witness == fn = "encodeChannel" /\ unitBase = 175 /\ unitData = -1 /\ ret = 169

\* C6: each output channel of encodeTextEffect has the high 4 bits of its base
\* channel, except the red channel when the sentinel rule fired (nibble-encoded red
\* 254 or in 62..64), which then differs from the nibble-encoded red by exactly 16.
C6_OutputKeepsHighBits ==
    pc = "done" =>
        /\ HighBits(encoded.g) = HighBits(baseColor.g)
        /\ HighBits(encoded.b) = HighBits(baseColor.b)
        /\ \/ HighBits(encoded.r) = HighBits(baseColor.r)
           \/ /\ RawRed \in Sentinels
              /\ encoded.r - RawRed \in {-16, 16}

C6_Witness ==
    /\ pc = "done"
    /\ baseColor.g = 255 /\ speed = 0 /\ encoded.g = 242
    /\ HighBits(encoded.r) = HighBits(baseColor.r)

\* C7 as amended: sentinel collisions cannot occur inside encodeTextEffect: the
\* nibble-encoded red is never 254 nor in 62..64, and avoidAnimationSentinels
\* returns it unchanged, high 4 bits included.
C7_NoSentinelCollision ==
    pc = "done" =>
        /\ RawRed \notin Sentinels
        /\ encoded.r = RawRed
        /\ HighBits(encoded.r) = HighBits(baseColor.r)

C7_Witness ==
    pc = "done" /\ baseColor.r = 63 /\ effectId = 7 /\ RawRed = 57 /\ encoded.r = 57

\* C7 as claimed: there are a base red in 0..255 and an effectId for which the
\* nibble-encoded red is 254 or in 62..64, so that avoidAnimationSentinels changes
\* the red channel's high 4 bits.  Evaluated once encodeTextEffect has returned,
\* over every base red and every effectId of the model.
C7_SentinelCollisionOccurs ==
    pc = "done" =>
        \E red \in Byte, id \in ArgRange :
            LET raw == encodeChannel(red, BitAnd(id, DATA_MASK))
            IN  /\ raw \in Sentinels
                /\ HighBits(avoidAnimationSentinels(raw)) # HighBits(red)

\* C8: avoidAnimationSentinels maps 254 to 238, 62 to 78, 63 to 79, 64 to 80 and
\* returns every other byte unchanged.
C8_SentinelTable ==
    fn = "avoidAnimationSentinels" =>
        ret = CASE unitBase = 254 -> 238
                [] unitBase = 62 -> 78
                [] unitBase = 63 -> 79
                [] unitBase = 64 -> 80
                [] OTHER -> unitBase

C8_Witness == fn = "avoidAnimationSentinels" /\ unitBase = 63 /\ ret = 79

\* C9: speed and param saturate: encodeTextEffect(base, effectId, speed, param) =
\* encodeTextEffect(base, effectId, clamp(speed,1,7), clamp(param,0,7)); speed = 99,
\* param = -5 gives the output of speed = 7, param = 0.
C9_SpeedParamSaturate ==
    pc = "done" =>
        /\ encoded = encodeTextEffect(baseColor, effectId,
                                      Saturate(speed, 1, 7), Saturate(param, 0, 7))
        /\ (speed = 99 /\ param = -5) =>
               encoded = encodeTextEffect(baseColor, effectId, 7, 0)

C9_Witness ==
    /\ pc = "done"
    /\ speed = 99 /\ param = -5
    /\ baseColor.g = 64 /\ encoded.g = 73
    /\ baseColor.b = 254 /\ encoded.b = 241

\* C10: effectId is reduced by bit mask, not clamped: encodeTextEffect(base,
\* effectId, speed, param) = encodeTextEffect(base, effectId & 7, speed, param) for
\* every integer effectId; effectId 8 encodes like 0 and not like 7.
C10_EffectIdMasked ==
    pc = "done" =>
        /\ encoded = encodeTextEffect(baseColor, Low3(effectId), speed, param)
        /\ effectId = 8 =>
               /\ encoded = encodeTextEffect(baseColor, 0, speed, param)
               /\ encoded # encodeTextEffect(baseColor, 7, speed, param)

C10_Witness ==
    pc = "done" /\ effectId = 8 /\ baseColor.r = 255 /\ encoded.r = 241

\* The digits of toString(16) in upper case.
UpperDigits == <<"0", "1", "2", "3", "4", "5", "6", "7", "8", "9",
                 "A", "B", "C", "D", "E", "F">>

\* C11: for every integer data, negative and above 7 included, encodeNibble(data)
\* depends only on the low 3 bits of data in two's complement:
\* encodeNibble(data) = encodeNibble(data & 7), always in {1,2,3,4,6,7,8,9}.
C11_NibbleLowThreeBits ==
    fn = "encodeNibble" =>
        /\ ret = encodeNibble(Low3(unitData))
        /\ ret = <<1, 2, 3, 4, 6, 7, 8, 9>>[Low3(unitData) + 1]
        /\ ret \in NibbleImage

C11_Witness == fn = "encodeNibble" /\ unitData = -1 /\ ret = 9

\* C12: encodeTextEffect is total: for every base colour and every integer effectId,
\* speed and param it returns a triplet whose channels are each in 0..255 (that the
\* call returns at all is what lets every start state take CallEncodeTextEffect).
C12_EncodeTotal ==
    pc = "done" =>
        /\ DOMAIN encoded = {"r", "g", "b", "hex"}
        /\ encoded.r \in Byte
        /\ encoded.g \in Byte
        /\ encoded.b \in Byte

C12_Witness ==
    /\ pc = "done"
    /\ effectId = -9 /\ baseColor.r = 255 /\ encoded.r = 249
    /\ speed = 99 /\ param = -5

\* C13: the hex field of encodeTextEffect's result is '#' followed by exactly six
\* characters 0-9, A-F, two zero-padded digits per channel in the order r, g, b, so
\* that hexToRgb(result.hex) = (result.r, result.g, result.b).
C13_HexIsCanonical ==
    pc = "done" =>
        /\ Len(encoded.hex) = 7
        /\ encoded.hex[1] = "#"
        /\ \A i \in 2..7 : encoded.hex[i] \in Digits \cup UpperHexLetters
        /\ encoded.hex = <<"#", UpperDigits[(encoded.r \div 16) + 1],
                                UpperDigits[(encoded.r % 16) + 1],
                                UpperDigits[(encoded.g \div 16) + 1],
                                UpperDigits[(encoded.g % 16) + 1],
                                UpperDigits[(encoded.b \div 16) + 1],
                                UpperDigits[(encoded.b % 16) + 1]>>
        /\ hexToRgb(encoded.hex) = [r |-> encoded.r, g |-> encoded.g, b |-> encoded.b]

C13_Witness ==
    /\ pc = "done"
    /\ encoded.r = 9 /\ encoded.g = 242 /\ encoded.b = 73
    /\ encoded.hex = <<"#", "0", "9", "F", "2", "4", "9">>

\* C14: encodeTextEffect with base (255,255,255), effectId 0, speed 3, param 3
\* returns r = 241, g = 244, b = 244 and hex '#F1F4F4'.
C14_WhiteExample ==
    (/\ pc = "done"
     /\ baseColor = [r |-> 255, g |-> 255, b |-> 255]
     /\ effectId = 0 /\ speed = 3 /\ param = 3) =>
        encoded = [r |-> 241, g |-> 244, b |-> 244,
                   hex |-> <<"#", "F", "1", "F", "4", "F", "4">>]

C14_Witness ==
    /\ pc = "done"
    /\ baseColor = [r |-> 255, g |-> 255, b |-> 255]
    /\ effectId = 0 /\ speed = 3 /\ param = 3
    /\ encoded.hex = <<"#", "F", "1", "F", "4", "F", "4">>

\* A hex digit in either case, by the digit tables.
IsRefHexDigit(c) ==
    \E v \in 1..16 : c = HexDigits[v] \/ c = UpperDigits[v]

\* The value of a hex digit in either case, by the digit tables.
RefDigitValue(c) ==
    (CHOOSE v \in 1..16 : c = HexDigits[v] \/ c = UpperDigits[v]) - 1

\* s without its leading '#', if it has one.
WithoutHash(s) == IF Len(s) > 0 /\ s[1] = "#" THEN Tail(s) ELSE s

\* s is an optional '#' followed by exactly six hex digits.
WellFormedHex(s) ==
    /\ Len(WithoutHash(s)) = 6
    /\ \A i \in 1..6 : IsRefHexDigit(WithoutHash(s)[i])

\* The colour written by the six digits d.
RefColor(d) ==
    [r |-> 16 * RefDigitValue(d[1]) + RefDigitValue(d[2]),
     g |-> 16 * RefDigitValue(d[3]) + RefDigitValue(d[4]),
     b |-> 16 * RefDigitValue(d[5]) + RefDigitValue(d[6])]

\* C15: for every string made of an optional leading '#' and exactly six hex digits
\* in any letter case, hexToRgb returns the three channel values of the digit pairs,
\* each in 0..255; the result depends neither on letter case nor on the '#'.
C15_HexParsed ==
    (hexPc = "done" /\ WellFormedHex(hexArg)) =>
        /\ hexRet = RefColor(WithoutHash(hexArg))
        /\ hexRet.r \in Byte /\ hexRet.g \in Byte /\ hexRet.b \in Byte
        /\ hexRet = hexToRgb(toUpperCase(WithoutHash(hexArg)))
        /\ hexRet = hexToRgb(<<"#">> \o WithoutHash(hexArg))

C15_Witness ==
    /\ hexPc = "done"
    /\ hexArg = <<"#", "0", "a", "F", "F", "a", "0">>
    /\ hexRet = [r |-> 10, g |-> 255, b |-> 160]

\* C16: for every string that is not an optional '#' followed by exactly six hex
\* digits, hexToRgb returns the default colour (255,255,255).
C16_HexDefault ==
    (hexPc = "done" /\ ~WellFormedHex(hexArg)) =>
        hexRet = [r |-> 255, g |-> 255, b |-> 255]

C16_Witness ==
    /\ hexPc = "done"
    /\ hexArg = <<"0", "a", "0", "a", "0", "a", "0">>
    /\ hexRet = [r |-> 255, g |-> 255, b |-> 255]

\* C17: the two implementations of the codec return identical results for every
\* input: encodeNibble, encodeChannel, avoidAnimationSentinels, clamp,
\* encodeTextEffect (byte triplet and hex string) and hexToRgb of the first
\* TextEffectGenerator against those of the second.
C17_ImplementationsAgree ==
    /\ pc = "done" => encoded = encodeTextEffect2(baseColor, effectId, speed, param)
    /\ pc \in {"start", "done"} =>
           /\ clamp(speed, 1, DATA_MASK) = clamp2(speed, 1, DATA_MASK2)
           /\ clamp(param, 0, DATA_MASK) = clamp2(param, 0, DATA_MASK2)
    /\ fn = "encodeNibble" => ret = encodeNibble2(unitData)
    /\ fn = "encodeChannel" => ret = encodeChannel2(unitBase, unitData)
    /\ fn = "avoidAnimationSentinels" => ret = avoidAnimationSentinels2(unitBase)
    /\ hexPc = "done" => hexRet = hexToRgb2(hexArg)

C17_Witness ==
    /\ pc = "done"
    /\ baseColor = [r |-> 63, g |-> 254, b |-> 64]
    /\ effectId = 7 /\ speed = 99 /\ param = -5
    /\ encoded = encodeTextEffect2(baseColor, effectId, speed, param)
    /\ encoded.hex = <<"#", "3", "9", "F", "9", "4", "1">>

\* What the component must show for its current inputs.
ExpectedEncoded ==
    encodeTextEffect(hexToRgb(ui.baseColorHex), ui.effectId, ui.speed, ui.param)

RECURSIVE ExpectedPerChar(_, _)
\* <hex>c for every character c of text.
ExpectedPerChar(hex, text) ==
    IF text = <<>> THEN <<>>
    ELSE <<"<">> \o hex \o <<">", Head(text)>> \o ExpectedPerChar(hex, Tail(text))

\* C19: in both components, after any sequence of changes to the base colour text,
\* effect id, speed, param and sample text, the encoded colour displayed and written
\* into the MiniMessage string is encodeTextEffect(hexToRgb(baseColorHex), effectId,
\* speed, param) of the current inputs, never a value of earlier inputs.
C19_ViewIsCurrent ==
    component \in {1, 2} =>
        /\ view.hex = ExpectedEncoded.hex
        /\ view.r = ExpectedEncoded.r
        /\ view.g = ExpectedEncoded.g
        /\ view.b = ExpectedEncoded.b
        /\ component = 1 =>
               view.miniMessage = ExpectedPerChar(ExpectedEncoded.hex, ui.sampleText)
        /\ component = 2 =>
               view.miniMessage =
                   <<"<">> \o ExpectedEncoded.hex \o <<">">> \o ui.sampleText

C19_Witness ==
    /\ component = 2
    /\ ui.baseColorHex = <<"#", "3", "e", "4", "0", "f", "e">>
    /\ ui.effectId = 7 /\ ui.speed = 7 /\ ui.param = 0
    /\ ui.sampleText = <<"H", "i">>
    /\ view.miniMessage = <<"<", "#", "3", "9", "4", "9", "F", "1", ">", "H", "i">>

\* The regular files of tree whose content is text.
FilesWithContent(tree, text) ==
    {p \in DOMAIN tree : tree[p].kind = "file" /\ tree[p].content = text}

\* The canonical path p lies in the tree of the content directory.
InContentTree(p) == startsWith(p, CONTENT_DIR \o <<"/">>)

\* C20: a document request never returns the content of a file whose canonical path
\* lies outside the content directory tree, whatever the slug: not through '..'
\* segments, not through a symbolic link, and not from a directory beside the
\* content directory whose name starts with the content directory's name.
C20_ServedFromContentTree ==
    (docPc = "done" /\ response.status = 200) =>
        \A p \in FilesWithContent(fs, response.body) : InContentTree(p)

\* The path of the request that was made, and the same path with ".md" after it.
RequestedPath == joinSlash(slug)

RequestedPathMd == RequestedPath \o <<".", "m", "d">>

\* C21: the '.md' extension is optional in a document request.  For every path p
\* that does not itself end in ".md", GET /api/docs/p.md returns the same status,
\* body, X-Doc-Title and X-Doc-Path as GET /api/docs/p.
C21_MdOptional ==
    (docPc = "done" /\ ~endsWith(RequestedPath, <<".", "m", "d">>)) =>
        response = documentResponse(fs, RequestedPathMd)

\* C21 as it was stated: for every path p, also one that ends in ".md".
C21_MdOptionalEveryPath ==
    docPc = "done" => response = documentResponse(fs, RequestedPathMd)

C21_Witness ==
    /\ docPc = "done"
    /\ slug = <<<<"d">>>>
    /\ response.status = 200
    /\ response.body = File(DocIndex).content
    /\ documentResponse(fs, RequestedPathMd).status = 200

\* C22: in the generator UI, after any sequence of user actions (preset clicks,
\* toggling custom-ID mode, typing any text into the custom-ID field, moving the
\* sliders) the state satisfies effectId in 0..7, speed in 1..7 and param in 0..7.
C22_StateInRange ==
    component \in {1, 2} =>
        /\ ui.effectId \in 0..7
        /\ ui.speed \in 1..7
        /\ ui.param \in 0..7

C22_Witness ==
    /\ component = 2
    /\ ui.useCustomId
    /\ ui.effectId = 7
    /\ ui.speed = 7
    /\ ui.param = 0

\* No element occurs twice in seq.
NoDuplicates(seq) == \A i, j \in 1..Len(seq) : seq[i] = seq[j] => i = j

\* The directories of the file system that listDocs has not visited.
Unvisited == {p \in DOMAIN fs : fs[p].kind = "dir"} \ visitedDirs

RECURSIVE PendingWork(_)
\* What the calls of frames have left to do: three for every entry not yet handled,
\* two for a call that has not entered its directory, one for its return.
PendingWork(frames) ==
    IF frames = <<>> THEN 0
    ELSE 3 * Len(Head(frames).entries)
             + (IF Head(frames).at = "enter" THEN 2 ELSE 1)
             + PendingWork(Tail(frames))

\* A natural number that bounds the steps listDocs still takes.
Measure == 3 * Cardinality(DOMAIN fs) * Cardinality(Unvisited) + PendingWork(stack)

\* C23: listDocs terminates on every finite directory structure, also when a
\* directory is reachable again through a link back to a directory above it or is
\* given as visited.  Every canonical directory is read at most once, a directory
\* already visited is not read, a call on a visited directory returns the empty
\* list, a running call can always take its next step, and every step of a running
\* call decreases the natural number Measure, so that the call returns.
C23_ListDocsTerminates ==
    /\ [](docPc \in {"listing", "done"} =>
            /\ NoDuplicates(reads)
            /\ \A i \in 1..Len(reads) : reads[i] \notin listCall.visitedDirs)
    /\ []((docPc = "done" /\ realpath(fs, listCall.dir).path \in listCall.visitedDirs) =>
            (listed.ok /\ listed.docs = <<>>))
    /\ []((docPc = "listing" /\ stack # <<>>) => Head(stack).at \in {"enter", "loop"})
    /\ []((docPc = "listing" /\ stack = <<>>) => listed.ok)
    /\ [][(docPc = "listing" /\ stack # <<>>) => Measure' < Measure]_vars

C23_Witness ==
    /\ docPc = "done"
    /\ BackLink \in DOMAIN fs
    /\ listCall.dir = CONTENT_DIR \o <<"/", "d">>
    /\ listCall.visitedDirs = {CONTENT_DIR}
    /\ reads = <<CONTENT_DIR \o <<"/", "d">>>>
    /\ listed.ok

\* How often x occurs in seq.
Occurrences(seq, x) == Cardinality({i \in 1..Len(seq) : seq[i] = x})

\* C24: listDocs returns every URL path at most once; when both a.md and a.mdx
\* exist in the directory it is called on (and a is not given as seen), a appears
\* exactly once; and no path has a segment that starts with '_' or '.', so that no
\* such file and nothing below such a directory contributes a path.
C24_ListedOnce ==
    docPc = "done" =>
        /\ listed.ok
        /\ NoDuplicates(listed.docs)
        /\ \A i \in 1..Len(listed.docs) :
              \A j \in 1..Len(split(listed.docs[i])) :
                  /\ split(listed.docs[i])[j] # <<>>
                  /\ Head(split(listed.docs[i])[j]) \notin {"_", "."}
        /\ (/\ {DocMdx, DocMd} \subseteq DOMAIN fs
            /\ realpath(fs, listCall.dir).path = CONTENT_DIR
            /\ listCall.visitedDirs = {}
            /\ listCall.seenDocs = {})
               => Occurrences(listed.docs,
                              IF listCall.prefix = <<>> THEN <<"a">>
                              ELSE listCall.prefix \o <<"/", "a">>) = 1

C24_Witness ==
    /\ docPc = "done"
    /\ slug = <<<<"_", "i", "n", "d", "e", "x">>>>
    /\ {DocMdx, DocMd, MetaFile, NestedDoc} \subseteq DOMAIN fs
    /\ Occurrences(listed.docs, <<"a">>) = 1
    /\ Occurrences(listed.docs, <<"d", "/", "a">>) = 1
    /\ Len(listed.docs) = 2

\* The candidate path c is an existing regular file (links followed) whose
\* canonical path lies in the tree of the content directory.
Qualifies(tree, c) ==
    /\ realpath(tree, c).ok
    /\ tree[realpath(tree, c).path].kind = "file"
    /\ InContentTree(realpath(tree, c).path)

\* The four candidates of the request that was made.
Candidates == possiblePaths(stripMdExtension(RequestedPath))

\* C25: a regular document request answers 404 if and only if none of its four
\* candidate paths is an existing regular file inside the content directory;
\* whenever such a file exists the response is 200 with the markdown of such a file.
C25_NotFoundIffNoCandidate ==
    docPc = "done" =>
        /\ response.status = 404 <=> \A i \in 1..4 : ~Qualifies(fs, Candidates[i])
        /\ (\E i \in 1..4 : Qualifies(fs, Candidates[i])) =>
              /\ response.status = 200
              /\ \E i \in 1..4 :
                    /\ Qualifies(fs, Candidates[i])
                    /\ response.body = readFile(fs, Candidates[i])

\* The entries of the content directory tree that listDocs turns into the URL
\* path p: p.mdx and p.md.
Producers(tree, p) ==
    {f \in {CONTENT_DIR \o <<"/">> \o p \o <<".", "m", "d", "x">>,
            CONTENT_DIR \o <<"/">> \o p \o <<".", "m", "d">>} : f \in DOMAIN tree}

\* C26: every path listed by the _index route is retrievable: for each path p of
\* the list, GET /api/docs/p on the same file system answers 200 with the content
\* of a file that produced p (p.mdx or p.md), not 404 and not another document.
C26_ListedIsRetrievable ==
    (docPc = "done" /\ slug = <<<<"_", "i", "n", "d", "e", "x">>>>) =>
        /\ response.status = 200
        /\ \A i \in 1..Len(response.docs) :
              LET p == response.docs[i].path
                  got == documentResponse(fs, p)
              IN  /\ got.status = 200
                  /\ \E f \in Producers(fs, p) :
                        /\ realpath(fs, f).ok
                        /\ got.body = readFile(fs, f)


\* The candidates of the path p in the order the documentation gives them:
\* p.mdx, p.md, p/index.mdx, p/index.md.
DocumentedOrder(p) ==
    <<join(<<CONTENT_DIR, p \o <<".", "m", "d", "x">>>>),
      join(<<CONTENT_DIR, p \o <<".", "m", "d">>>>),
      join(<<CONTENT_DIR, p, <<"i", "n", "d", "e", "x", ".", "m", "d", "x">>>>),
      join(<<CONTENT_DIR, p, <<"i", "n", "d", "e", "x", ".", "m", "d">>>>)>>

\* The candidate is an existing regular file, wherever it resolves to.
IsRegularFile(tree, c) ==
    /\ realpath(tree, c).ok
    /\ tree[realpath(tree, c).path].kind = "file"

\* None of the candidates is an empty file or resolves outside the content
\* directory tree.
Clean(tree, candidates) ==
    \A i \in DOMAIN candidates :
        IsRegularFile(tree, candidates[i]) =>
            /\ Qualifies(tree, candidates[i])
            /\ readFile(tree, candidates[i]) # <<>>

RECURSIVE Lines(_)
\* The lines of a text.
Lines(text) ==
    IF \A i \in 1..Len(text) : text[i] # "\n" THEN {text}
    ELSE LET i == CHOOSE k \in 1..Len(text) :
                      text[k] = "\n" /\ \A j \in 1..(k - 1) : text[j] # "\n"
         IN  {SubSeq(text, 1, i - 1)} \cup Lines(SubSeq(text, i + 1, Len(text)))

\* A regular document request has been answered.
RegularDone == docPc = "done" /\ listCall = <<>>

\* The request to _all has been answered.
AllDone == docPc = "done" /\ slug = <<<<"_", "a", "l", "l">>>>

\* The first of the candidates that qualifies is the one that is served.
FirstQualifyingServed(candidates) ==
    \A i \in 1..4 :
        (Qualifies(fs, candidates[i]) /\ \A j \in 1..(i - 1) : ~Qualifies(fs, candidates[j])) =>
            /\ response.status = 200
            /\ response.body = readFile(fs, candidates[i])

\* No candidate is served when one before it qualifies.
NoLaterServed(candidates) ==
    response.status = 200 =>
        \A j \in 1..4 :
            (IsRegularFile(fs, candidates[j]) /\ response.body = readFile(fs, candidates[j])) =>
                \A i \in 1..(j - 1) : realpath(fs, candidates[i]).path = realpath(fs, candidates[j]).path
                                         \/ ~Qualifies(fs, candidates[i])

\* The text of _all has the content of p.mdx and not that of p.md when both
\* qualify, for every document p of the list.
AllPrefersMdx ==
    response.status = 200 =>
        \A k \in 1..Len(listed.docs) :
            LET c == DocumentedOrder(listed.docs[k])
            IN  (Qualifies(fs, c[1]) /\ Qualifies(fs, c[2])) =>
                    /\ readFile(fs, c[1]) \in Lines(response.body)
                    /\ readFile(fs, c[2]) \notin Lines(response.body)

C27_WitnessAll ==
    /\ AllDone
    /\ response.status = 200
    /\ DocMdx \in DOMAIN fs /\ fs[DocMdx] = File(DocMdx)
    /\ DocMd \in DOMAIN fs /\ fs[DocMd] = File(DocMd)
    /\ File(DocMdx).content \in Lines(response.body)


\* The code changes in this step.
CodeChanges == editor'.code # editor.code

\* A timeout runs in this step: it is no longer pending, and the code is as it was.
TimeoutRuns ==
    /\ editor'.code = editor.code
    /\ \E t \in timers : timers' = timers \ {t}

\* The status is final and the compiled shader is that of the code in the editor.
Compiled ==
    /\ editor.status # "compiling"
    /\ editor.compiled = parseGLSL(editor.code)

\* C28: the auto-compile of the shader editor is debounced.  On every change of
\* the code the status becomes 'compiling' and the only timeout pending is the one
\* the change set, so a compile by a timeout runs no earlier than 300 ms after the
\* most recent change; once the edits stop, the status leaves 'compiling' for good
\* and the compiled shader is the parse of the latest code.
C28_DebouncedCompile ==
    /\ [][CodeChanges =>
              /\ editor'.status = "compiling"
              /\ timers' = {[callback |-> editor'.code, left |-> CompileDelay]}]_vars
    /\ [][TimeoutRuns => sinceChange >= CompileDelay]_vars
    /\ <>[][~CodeChanges]_vars => <>[]Compiled

\* A statement was typed, and its timeout has compiled it.
C28_Witness ==
    /\ editor.kind = "vertex"
    /\ editor.code = <<"// c", "pos.x += E;">>
    /\ editor.status = "valid"
    /\ editor.compiled.posX = "evaluator of E"
    /\ timers = {}
    /\ sinceChange >= CompileDelay


\* The preview is mounted and paused.
Paused == preview.mounted /\ ~preview.isPlaying

\* The animation effect has run with the font loaded, and the preview has what
\* it needs to draw: the WebGL preview a program of the code it has now.
CanDraw ==
    /\ preview.hasCleanup
    /\ preview.variant = "webgl" => preview.compiles

\* C29: in every ShaderPreview, under any interleaving of play/pause toggles,
\* input changes and frame callbacks, at most one animation-frame callback is
\* pending at a time, and none is pending, so none runs, once the preview is paused
\* or unmounted; a paused preview that can draw (its font is loaded and, for the
\* WebGL preview, its shader code compiles) has drawn exactly one frame since the
\* last change.
C29_OneFramePending ==
    /\ Cardinality(preview.frames) <= 1
    /\ (Paused \/ ~preview.mounted) => preview.frames = {}
    /\ (Paused /\ CanDraw) => preview.drawn = 1

\* C29 as it was stated: every paused preview has drawn exactly one frame since
\* the last change.
C29_OneFramePerChangeAlways ==
    /\ Cardinality(preview.frames) <= 1
    /\ (Paused \/ ~preview.mounted) => preview.frames = {}
    /\ Paused => preview.drawn = 1

\* A frame callback has run and asked for the next frame, and the preview was
\* paused after that.
C29_Witness ==
    /\ Paused
    /\ preview.variant = "webgl"
    /\ preview.animationRef = 2
    /\ preview.frames = {}
    /\ preview.drawn = 1


\* C30: in the second TextEffectGenerator, after copyToClipboard(text, label)
\* the indicator 'copied' equals label until 2000 ms after that call unless a
\* later copy replaces it, and it is null once 2000 ms have passed since the last
\* copy; a reset timeout of an earlier copy never clears the indicator of a later
\* copy.
C30_CopiedUntilReset ==
    /\ clip.since < ResetDelay => clip.copied = clip.last
    /\ clip.since > ResetDelay => clip.copied = Null

=============================================================================
